---- MODULE Spec2Model ----
(***************************************************************************)
(* State-machine model of the annotation dataset engine of the YOLO        *)
(* annotation tool (src/gui.py, class AnnotatorApp): the per-image         *)
(* annotation list, its label file on disk, the undo / redo / deletion     *)
(* stacks, the class index and the filtered file list.                     *)
(*                                                                         *)
(* Coordinates are fixed-point numbers: one unit is 10^-7, so that the     *)
(* 6-decimal text format of a label file (one unit of the file is 10 units *)
(* of the model) is a real rounding and not the identity.                  *)
(***************************************************************************)
EXTENDS Integers, Sequences, FiniteSets, TLC

\* ------------------------------------------------------------------ numbers

\* 1.0 in model units (10^-7).
ONE == 10000000

\* 0.001, the smallest width / height load and save let through (max(0.001, ..)).
MIN_DIM == 10000

\* One step of the 6-decimal text format, in model units.
GRID == 10

Max2(a, b) == IF a >= b THEN a ELSE b

Min2(a, b) == IF a <= b THEN a ELSE b

Min3(a, b, c) == Min2(a, Min2(b, c))

Abs(a) == IF a < 0 THEN -a ELSE a

\* f"{x:.6f}" followed by float(): x rounded to the nearest multiple of GRID
\* (ties to even; the inputs of the model never sit on a tie).  x >= 0.
Fmt6(x) ==
    LET q == x \div GRID
        r == x % GRID
    IN  IF 2 * r > GRID \/ (2 * r = GRID /\ q % 2 = 1)
        THEN (q + 1) * GRID
        ELSE q * GRID

\* ------------------------------------------------------------------ label files

\* A line of a label file.  kind "full": "<int> <float> <float> <float> <float>";
\* kind "short": a leading integer and fewer than five fields;
\* kind "junk": five fields, the first of which is no integer;
\* kind "open": a "full" line of 6-decimal numbers that lacks its newline
\* character (the last line of a file another tool wrote);
\* kind "glued": an "open" line with the text of a line appended to it, nine
\* fields of which the parsers read the first five.
Line(kind, cid, cx, cy, w, h) ==
    [kind |-> kind, cid |-> cid, cx |-> cx, cy |-> cy, w |-> w, h |-> h]

\* An annotation [class_id, cx, cy, w, h] in memory.
Ann(cid, cx, cy, w, h) == [cid |-> cid, cx |-> cx, cy |-> cy, w |-> w, h |-> h]

\* A label file is absent or holds a sequence of lines.
NoFile == [exists |-> FALSE, lines |-> <<>>]

File(lines) == [exists |-> TRUE, lines |-> lines]

\* The parsers' test of a line: five fields or more, numbers all.
Parses(l) == l.kind \in {"full", "open", "glued"}

RECURSIVE SeqFilterFull(_)
\* load_image's parse loop: a line that does not parse is dropped.
SeqFilterFull(lines) ==
    IF lines = <<>> THEN <<>>
    ELSE LET l == Head(lines)
             rest == SeqFilterFull(Tail(lines))
         IN  IF Parses(l)
             THEN <<Ann(l.cid, l.cx, l.cy, l.w, l.h)>> \o rest
             ELSE rest

\* The annotations load_image parses from a label file (none when it is absent).
ParseLabel(f) == IF f.exists THEN SeqFilterFull(f.lines) ELSE <<>>

\* load_image's sanitising of one annotation.
ClampOnLoad(a) ==
    LET new_cx == Max2(0, Min2(ONE, a.cx))
        new_cy == Max2(0, Min2(ONE, a.cy))
        new_w == Max2(MIN_DIM, Min3(Abs(a.w), 2 * new_cx, 2 * (ONE - new_cx)))
        new_h == Max2(MIN_DIM, Min3(Abs(a.h), 2 * new_cy, 2 * (ONE - new_cy)))
    IN  Ann(a.cid, new_cx, new_cy, new_w, new_h)

\* The list load_image keeps in memory for a label file.
Sanitize(anns) == [i \in 1..Len(anns) |-> ClampOnLoad(anns[i])]

\* load_image's needs_resave: some value was changed by the clamping.
NeedsResave(anns) == \E i \in 1..Len(anns) : ClampOnLoad(anns[i]) # anns[i]

\* save_annotations' line for one annotation: clamp (no abs()), then 6 decimals.
SaveLine(a) ==
    LET cx == Max2(0, Min2(ONE, a.cx))
        cy == Max2(0, Min2(ONE, a.cy))
        w == Max2(MIN_DIM, Min3(a.w, 2 * cx, 2 * (ONE - cx)))
        h == Max2(MIN_DIM, Min3(a.h, 2 * cy, 2 * (ONE - cy)))
    IN  Line("full", a.cid, Fmt6(cx), Fmt6(cy), Fmt6(w), Fmt6(h))

\* The label file save_annotations writes for an annotation list.
WriteLines(anns) == File([i \in 1..Len(anns) |-> SaveLine(anns[i])])

\* The class ids the index build reads from a label file: the leading integer
\* of every non-blank line that has one.
ClassSet(f) ==
    IF f.exists
    THEN {f.lines[i].cid : i \in {j \in 1..Len(f.lines) : f.lines[j].kind # "junk"}}
    ELSE {}

\* ------------------------------------------------------------------ bounds

\* Number of images of the workspace (paths 1..NImages, in sorted order).
NImages == 2

\* Number of edits (draw, delete a box, clear, bulk clear) of a run.
MaxEdits == 1

\* Number of deletions of images of a run.
MaxDeletes == 1

\* Longest annotation list an edit creates.
MaxAnns == 2

\* Number of edits of a run that follows the undo stack to its bound.
MaxPushes == 52

\* Number of batch jobs of a run.
MaxJobs == 1

\* ------------------------------------------------------------------ state

Images == 1..NImages

\* None, for a path.
NoPath == 0

Classes == {0, 1}

VARIABLES
    image_files,             \* disk: the image files that exist
    label_files,             \* disk: image path -> its label file
    disk_mode,               \* disk: "ok", "readonly" (open fails), "full" (write fails)
    image_paths,             \* self.image_paths
    filtered_image_paths,    \* self.filtered_image_paths
    current_index,           \* self.current_index (0-based, -1 when reset)
    current_image,           \* self.current_image is not None
    current_file_path,       \* self.current_file_path (NoPath for None)
    annotations,             \* self.annotations
    image_to_classes_cache,  \* self.image_to_classes_cache
    image_id_map,            \* self.image_id_map
    selected_class_id,       \* self.selected_class_id
    filter_mode,             \* self.filter_mode
    custom_query_paths,      \* self.custom_query_paths (None and set() both read as {})
    last_query_conditions,   \* self.last_query_conditions
    deleted_files_stack,     \* self.deleted_files_stack
    annotation_undo_stack,   \* self.annotation_undo_stack
    annotation_redo_stack,   \* self.annotation_redo_stack
    raised,                  \* the exception the last handler let escape ("" for none)
    shown,                   \* the error dialog the last handler showed ("" for none)
    stale_refresh,           \* the last handler ran _refresh_file_list on a stale index
    before_undo,             \* history: annotations and label files just before an Undo
    job,                     \* the batch job: its closure variables and its thread
    earlier_job,             \* the batch job started before `job`, while it is alive
    dataset,                 \* disk: the directories reduce_dataset works on
    reduction,               \* the locals of the last call of reduce_dataset
    edits_left,              \* run: the edits the user still makes
    deletes_left,            \* run: the image deletions the user still makes
    jobs_left                \* run: the batch jobs the user still starts

vars ==
    <<image_files, label_files, disk_mode, image_paths, filtered_image_paths,
      current_index, current_image, current_file_path, annotations,
      image_to_classes_cache, image_id_map, selected_class_id, filter_mode,
      custom_query_paths, last_query_conditions, deleted_files_stack,
      annotation_undo_stack, annotation_redo_stack, raised, shown,
      stale_refresh, before_undo, job, earlier_job, dataset, reduction,
      edits_left, deletes_left, jobs_left>>

\* The variables of the dataset reduction.
reduce_vars == <<dataset, reduction>>

\* The application and the disk as one value, for the handlers to transform.
St ==
    [image_files |-> image_files, label_files |-> label_files,
     disk_mode |-> disk_mode, image_paths |-> image_paths,
     filtered_image_paths |-> filtered_image_paths,
     current_index |-> current_index, current_image |-> current_image,
     current_file_path |-> current_file_path, annotations |-> annotations,
     image_to_classes_cache |-> image_to_classes_cache,
     image_id_map |-> image_id_map, selected_class_id |-> selected_class_id,
     filter_mode |-> filter_mode, custom_query_paths |-> custom_query_paths,
     last_query_conditions |-> last_query_conditions,
     deleted_files_stack |-> deleted_files_stack,
     annotation_undo_stack |-> annotation_undo_stack,
     annotation_redo_stack |-> annotation_redo_stack,
     exc |-> "", shown |-> "", stale |-> FALSE]

\* The state a handler leaves behind.
Commit(r) ==
    /\ image_files' = r.image_files
    /\ label_files' = r.label_files
    /\ disk_mode' = r.disk_mode
    /\ image_paths' = r.image_paths
    /\ filtered_image_paths' = r.filtered_image_paths
    /\ current_index' = r.current_index
    /\ current_image' = r.current_image
    /\ current_file_path' = r.current_file_path
    /\ annotations' = r.annotations
    /\ image_to_classes_cache' = r.image_to_classes_cache
    /\ image_id_map' = r.image_id_map
    /\ selected_class_id' = r.selected_class_id
    /\ filter_mode' = r.filter_mode
    /\ custom_query_paths' = r.custom_query_paths
    /\ last_query_conditions' = r.last_query_conditions
    /\ deleted_files_stack' = r.deleted_files_stack
    /\ annotation_undo_stack' = r.annotation_undo_stack
    /\ annotation_redo_stack' = r.annotation_redo_stack
    /\ raised' = r.exc
    /\ shown' = r.shown
    /\ stale_refresh' = r.stale

\* ------------------------------------------------------------------ helpers

Range(seq) == {seq[i] : i \in 1..Len(seq)}

Contains(seq, x) == \E i \in 1..Len(seq) : seq[i] = x

\* list.index(x), 0-based.
IndexOf(seq, x) == (CHOOSE i \in 1..Len(seq) : seq[i] = x /\ \A j \in 1..(i - 1) : seq[j] # x) - 1

\* list.remove(x) on a list that holds x at most once.
Remove(seq, x) == SelectSeq(seq, LAMBDA y : y # x)

RECURSIVE SortedSeq(_)
\* sorted(set): the elements of a set of paths in ascending order.
SortedSeq(S) ==
    IF S = {} THEN <<>>
    ELSE LET m == CHOOSE x \in S : \A y \in S : x <= y
         IN  <<m>> \o SortedSeq(S \ {m})

\* del list[i] for a 1-based position i.
DelAt(seq, i) == SubSeq(seq, 1, i - 1) \o SubSeq(seq, i + 1, Len(seq))

\* dict.get(p, set()).
CacheGet(c, p) == IF p \in DOMAIN c THEN c[p] ELSE {}

\* dict[p] = v.
CachePut(c, p, v) == [q \in DOMAIN c \cup {p} |-> IF q = p THEN v ELSE c[q]]

\* del dict[p] when present.
CacheDel(c, p) == [q \in DOMAIN c \ {p} |-> c[q]]

\* set(a[0] for a in annotations).
Cids(anns) == {anns[i].cid : i \in 1..Len(anns)}

\* ------------------------------------------------------------------ binary64

\* The arithmetic of Python's float on the numbers of a label file.  A natural
\* number of up to 112 bits is eight limbs of 14 bits, lowest first; a double
\* is sign * m * 2^e with m = 0 or 2^52 <= m < 2^53.
Limbs == 1..8

LimbBase == 128 * 128

\* The limbs of a number, computed once.
Tup(f) == SubSeq(f, 1, 8)

Big(n) == <<n % LimbBase, (n \div LimbBase) % LimbBase,
            n \div (LimbBase * LimbBase), 0, 0, 0, 0, 0>>

Zero == [sign |-> 1, m |-> Big(0), e |-> 0]

\* The operations are the arms of one operator, Float, which they call
\* through the names that follow.
RECURSIVE Float(_, _)

BAdd(a, b) == Float("BAdd", <<a, b>>)

\* a - b for a >= b.
BSub(a, b) == Float("BSub", <<a, b>>)

\* -1, 0, 1 as a < b, a = b, a > b.
BCmp(a, b) == Float("BCmp", <<a, b>>)

\* a * k for k <= 2^14.
BMulSmall(a, k) == Float("BMulSmall", <<a, k>>)

\* a * 2^s.
BShl(a, s) == Float("BShl", <<a, s>>)

\* a \div 2^s.
BShr(a, s) == Float("BShr", <<a, s>>)

\* a * b for b < 2^56.
BMul(a, b) == Float("BMul", <<a, b>>)

\* The number of bits of a.
BitLen(a) == Float("BitLen", <<a>>)

\* The double nearest to n * 2^e (ties to even); `sticky` tells that the exact
\* value is a little above n * 2^e.
Round(sign, n, e, sticky) == Float("Round", <<sign, n, e, sticky>>)

\* float(n) for an integer n of the model.
FromInt(n) == Round(IF n < 0 THEN -1 ELSE 1, Big(IF n < 0 THEN -n ELSE n), 0, FALSE)

\* -1, 0, 1 as x < y, x = y, x > y.
FCmp(x, y) == Float("FCmp", <<x, y>>)

FAdd(x, y) == Float("FAdd", <<x, y>>)

FNeg(x) == [x EXCEPT !.sign = -x.sign]

FSub(x, y) == FAdd(x, FNeg(y))

FMul(x, y) == Float("FMul", <<x, y>>)

\* x / y for y # 0.
FDiv(x, y) == Float("FDiv", <<x, y>>)

\* x / 2.
FHalf(x) == IF x.m = Big(0) THEN x ELSE [x EXCEPT !.e = @ - 1]

FMax(x, y) == IF FCmp(x, y) >= 0 THEN x ELSE y

FMin(x, y) == IF FCmp(x, y) <= 0 THEN x ELSE y

\* The next seven bits of the quotient of r by the mantissa d, for r < d.
Digit(r, d) == Float("Digit", <<r, d>>)

\* Long division by d, seven bits at a time: the quotient so far and the
\* remainder it leaves.
DivStep(st, d) == Float("DivStep", <<st, d>>)

\* float(text) for the decimal text of x * 10^-7: the double nearest to it,
\* which is the quotient of the two integers.
FromDecimal(x) == Float("FromDecimal", <<x>>)

\* _boxes_overlap up to its quotient, in the arithmetic of the program: the
\* IoU of two boxes (lines or annotations with the numbers cx, cy, w, h in
\* model units); `none` where the function returns before it divides.
IoU(box1, box2) == Float("IoU", <<box1, box2>>)

\* The return of _boxes_overlap for the result r of IoU and the threshold
\* `threshold` * 10^-7: False where union_area <= 0, else iou > threshold.
Above(r, threshold) == ~r.none /\ FCmp(r.iou, FromDecimal(threshold)) > 0

\* _boxes_overlap.
BoxesOverlap(box1, box2, threshold) == Above(IoU(box1, box2), threshold)

\* The boxes _image_has_overlaps reads from a label file: the lines of five
\* fields or more whose second to fifth field are numbers (the first field is
\* not read).
OverlapBoxes(f) ==
    IF f.exists THEN SelectSeq(f.lines, LAMBDA l : l.kind # "short") ELSE <<>>

\* The threshold _image_has_overlaps leaves to the default of _boxes_overlap.
overlap_threshold == 3000000

\* _image_has_overlaps: some two boxes of the label file overlap.
image_has_overlaps(f) == Float("image_has_overlaps", <<f>>)

Float(op, args) ==
    CASE op = "BAdd" ->
            LET a == args[1]
                b == args[2]
                c(i) == IF \E j \in 1..(i - 1) :
                               /\ a[j] + b[j] >= LimbBase
                               /\ \A k \in (j + 1)..(i - 1) : a[k] + b[k] = LimbBase - 1
                        THEN 1 ELSE 0
            IN  Tup([i \in Limbs |-> (a[i] + b[i] + c(i)) % LimbBase])
      [] op = "BSub" ->
            LET a == args[1]
                b == args[2]
                c(i) == IF \E j \in 1..(i - 1) :
                               /\ a[j] < b[j]
                               /\ \A k \in (j + 1)..(i - 1) : a[k] = b[k]
                        THEN 1 ELSE 0
            IN  Tup([i \in Limbs |-> (a[i] - b[i] - c(i) + LimbBase) % LimbBase])
      [] op = "BCmp" ->
            LET a == args[1]
                b == args[2]
                D == {i \in Limbs : a[i] # b[i]}
            IN  IF D = {} THEN 0
                ELSE LET m == CHOOSE i \in D : \A j \in D : j <= i
                     IN  IF a[m] > b[m] THEN 1 ELSE -1
      [] op = "BMulSmall" ->
            LET a == args[1]
                k == args[2]
            IN  BAdd(Tup([i \in Limbs |-> (a[i] * k) % LimbBase]),
                     Tup([i \in Limbs |-> IF i = 1 THEN 0
                                          ELSE (a[i - 1] * k) \div LimbBase]))
      [] op = "BShl" ->
            LET a == args[1]
                u == args[2] \div 14
            IN  BMulSmall(Tup([i \in Limbs |-> IF i > u THEN a[i - u] ELSE 0]),
                          2 ^ (args[2] % 14))
      [] op = "BShr" ->
            LET a == args[1]
                u == args[2] \div 14
                v == args[2] % 14
                at(i) == IF i \in Limbs THEN a[i] ELSE 0
            IN  Tup([i \in Limbs |-> (at(i + u) \div (2 ^ v))
                                        + (at(i + u + 1) % (2 ^ v)) * (2 ^ (14 - v))])
      [] op = "BMul" ->
            LET a == args[1]
                b == args[2]
                P(j) == BShl(BMulSmall(a, b[j]), 14 * (j - 1))
            IN  BAdd(BAdd(P(1), P(2)), BAdd(P(3), P(4)))
      [] op = "BitLen" ->
            LET a == args[1]
                D == {i \in Limbs : a[i] # 0}
            IN  IF D = {} THEN 0
                ELSE LET m == CHOOSE i \in D : \A j \in D : j <= i
                     IN  14 * (m - 1)
                            + (CHOOSE n \in 1..14 : 2 ^ (n - 1) <= a[m] /\ a[m] < 2 ^ n)
      [] op = "Round" ->
            LET sign == args[1]
                n == args[2]
                e == args[3]
                sticky == args[4]
                len == BitLen(n)
            IN  IF len = 0 THEN Zero
                ELSE IF len <= 53
                THEN [sign |-> sign, m |-> BShl(n, 53 - len), e |-> e - (53 - len)]
                ELSE
                LET s == len - 53
                    q == BShr(n, s)
                    half == BCmp(BSub(n, BShl(q, s)), BShl(Big(1), s - 1))
                    up == half > 0 \/ (half = 0 /\ (sticky \/ q[1] % 2 = 1))
                    q1 == IF up THEN BAdd(q, Big(1)) ELSE q
                IN  IF BitLen(q1) = 54
                    THEN [sign |-> sign, m |-> BShr(q1, 1), e |-> e + s + 1]
                    ELSE [sign |-> sign, m |-> q1, e |-> e + s]
      [] op = "FCmp" ->
            LET x == args[1]
                y == args[2]
                e == IF x.e <= y.e THEN x.e ELSE y.e
            IN  IF x.m = Big(0) /\ y.m = Big(0) THEN 0
                ELSE IF x.m = Big(0) THEN -y.sign
                ELSE IF y.m = Big(0) THEN x.sign
                ELSE IF x.sign # y.sign THEN x.sign
                ELSE x.sign * BCmp(BShl(x.m, x.e - e), BShl(y.m, y.e - e))
      [] op = "FAdd" ->
            \* The mantissas as multiples of one power of two (the exponents
            \* are no more than 58 apart for the numbers of this model).
            LET x == args[1]
                y == args[2]
                e == IF x.e <= y.e THEN x.e ELSE y.e
                xm == BShl(x.m, x.e - e)
                ym == BShl(y.m, y.e - e)
                c == BCmp(xm, ym)
            IN  IF x.m = Big(0) THEN y
                ELSE IF y.m = Big(0) THEN x
                ELSE IF x.sign = y.sign THEN Round(x.sign, BAdd(xm, ym), e, FALSE)
                ELSE IF c = 0 THEN Zero
                ELSE IF c > 0 THEN Round(x.sign, BSub(xm, ym), e, FALSE)
                ELSE Round(y.sign, BSub(ym, xm), e, FALSE)
      [] op = "FMul" ->
            LET x == args[1]
                y == args[2]
            IN  IF x.m = Big(0) \/ y.m = Big(0) THEN Zero
                ELSE Round(x.sign * y.sign, BMul(x.m, y.m), x.e + y.e, FALSE)
      [] op = "Digit" ->
            \* The g with g * d <= 128 * r < (g + 1) * d, sought where the
            \* leading limbs of the two numbers allow it.
            LET d == args[2]
                r128 == BMulSmall(args[1], 128)
                top == r128[4] + LimbBase * r128[5]
                hi == IF (top + 1) \div d[4] < 127 THEN (top + 1) \div d[4] ELSE 127
            IN  CHOOSE g \in (top \div (d[4] + 1))..hi :
                    /\ BCmp(BMulSmall(d, g), r128) <= 0
                    /\ BCmp(BMulSmall(d, g + 1), r128) > 0
      [] op = "DivStep" ->
            LET st == args[1]
                d == args[2]
                g == Digit(st.r, d)
            IN  IF st.r = Big(0) THEN [q |-> BMulSmall(st.q, 128), r |-> st.r]
                ELSE [q |-> BAdd(BMulSmall(st.q, 128), Big(g)),
                      r |-> BSub(BMulSmall(st.r, 128), BMulSmall(d, g))]
      [] op = "FDiv" ->
            \* 57 bits of the quotient of the mantissas, rounded.
            LET x == args[1]
                y == args[2]
                s0 == IF BCmp(x.m, y.m) >= 0
                      THEN [q |-> Big(1), r |-> BSub(x.m, y.m)]
                      ELSE [q |-> Big(0), r |-> x.m]
                s4 == DivStep(DivStep(DivStep(DivStep(s0, y.m), y.m), y.m), y.m)
                s8 == DivStep(DivStep(DivStep(DivStep(s4, y.m), y.m), y.m), y.m)
            IN  IF x.m = Big(0) THEN Zero
                ELSE Round(x.sign * y.sign, s8.q, x.e - y.e - 56, s8.r # Big(0))
      [] op = "IoU" ->
            LET box1 == args[1]
                box2 == args[2]
                cx1 == FromDecimal(box1.cx)  cy1 == FromDecimal(box1.cy)
                w1 == FromDecimal(box1.w)    h1 == FromDecimal(box1.h)
                cx2 == FromDecimal(box2.cx)  cy2 == FromDecimal(box2.cy)
                w2 == FromDecimal(box2.w)    h2 == FromDecimal(box2.h)
                x1_min == FSub(cx1, FHalf(w1))  x1_max == FAdd(cx1, FHalf(w1))
                y1_min == FSub(cy1, FHalf(h1))  y1_max == FAdd(cy1, FHalf(h1))
                x2_min == FSub(cx2, FHalf(w2))  x2_max == FAdd(cx2, FHalf(w2))
                y2_min == FSub(cy2, FHalf(h2))  y2_max == FAdd(cy2, FHalf(h2))
                inter_x == FMax(Zero, FSub(FMin(x1_max, x2_max), FMax(x1_min, x2_min)))
                inter_y == FMax(Zero, FSub(FMin(y1_max, y2_max), FMax(y1_min, y2_min)))
                inter_area == FMul(inter_x, inter_y)
                area1 == FMul(w1, h1)
                area2 == FMul(w2, h2)
                union_area == FSub(FAdd(area1, area2), inter_area)
            IN  IF FCmp(union_area, Zero) <= 0 THEN [none |-> TRUE, iou |-> Zero]
                ELSE [none |-> FALSE, iou |-> FDiv(inter_area, union_area)]
      [] op = "FromDecimal" -> FDiv(FromInt(args[1]), FromInt(ONE))
      [] op = "image_has_overlaps" ->
            LET boxes == OverlapBoxes(args[1])
            IN  \E i \in 1..Len(boxes) : \E j \in (i + 1)..Len(boxes) :
                    BoxesOverlap(boxes[i], boxes[j], overlap_threshold)

\* ------------------------------------------------------------------ filters

\* self.filter_mode: "All", "Unannotated", "Overlapping", "Custom Query",
\* "Has: X", "Missing: X", "Only: X" (cls is the index of X in self.classes, -1
\* when the mode has none).
Mode(kind, cls) == [kind |-> kind, cls |-> cls]

ModeAll == Mode("All", -1)

ModeQuery == Mode("Custom Query", -1)

\* The values of the filter combo box (set_classes), without the two modes that
\* read the geometry of the label files (Overlapping, Suspicious).
ComboValues ==
    {ModeAll, Mode("Unannotated", -1)}
        \cup {Mode(k, c) : k \in {"Has", "Missing", "Only"}, c \in Classes}

\* The modes whose predicate reads the class index.
IndexBased == {"Unannotated", "Has", "Missing", "Only"}

\* _refresh_file_list with "Only: X" read as "Has: X".
KeepsOnlyAsHas(s, p) ==
    LET cache == CacheGet(s.image_to_classes_cache, p)
        k == s.filter_mode.kind
        c == s.filter_mode.cls
    IN  CASE k = "All" -> TRUE
          [] k = "Custom Query" ->
                ~(s.custom_query_paths # {} /\ p \notin s.custom_query_paths)
          [] k = "Unannotated" -> cache = {}
          [] k = "Has" -> c \in cache
          [] k = "Missing" -> c \notin cache
          [] k = "Only" -> c \in cache
          [] k = "Overlapping" -> image_has_overlaps(s.label_files[p])
          [] OTHER -> TRUE

\* Whether _refresh_file_list keeps image p.
Keeps(s, p) ==
    LET cache == CacheGet(s.image_to_classes_cache, p)
        k == s.filter_mode.kind
        c == s.filter_mode.cls
    IN  CASE k = "All" -> TRUE
          [] k = "Custom Query" ->
                ~(s.custom_query_paths # {} /\ p \notin s.custom_query_paths)
          [] k = "Unannotated" -> cache = {}
          [] k = "Has" -> c \in cache
          [] k = "Missing" -> c \notin cache
          [] k = "Only" -> ~(cache = {} \/ cache # {c})
          [] k = "Overlapping" -> image_has_overlaps(s.label_files[p])
          [] OTHER -> TRUE

\* An index-based filter is about to read an entry that differs from the class
\* ids of the image's label file.
StaleIndex(s) ==
    /\ s.filter_mode.kind \in IndexBased
    /\ \E p \in Range(s.image_paths) :
           CacheGet(s.image_to_classes_cache, p) # ClassSet(s.label_files[p])

\* _refresh_file_list.  The field `stale` records what the index was like.
refresh_file_list(s) ==
    [s EXCEPT !.filtered_image_paths =
                  SelectSeq(s.image_paths, LAMBDA p : Keeps(s, p)),
              !.stale = @ \/ StaleIndex(s)]

\* _build_annotation_cache_and_stats: the index rebuilt from the label files.
build_annotation_cache_and_stats(s) ==
    [s EXCEPT !.image_to_classes_cache =
        [p \in Range(s.image_paths) |-> ClassSet(s.label_files[p])]]

\* ------------------------------------------------------------------ save and load

\* Mutant of save_annotations: the write error is swallowed.
save_annotations_swallow(s) ==
    IF ~s.current_image \/ s.current_file_path = NoPath THEN s
    ELSE IF s.disk_mode # "ok" THEN s
    ELSE [s EXCEPT !.label_files[s.current_file_path] = WriteLines(s.annotations),
                   !.image_to_classes_cache =
                       CachePut(@, s.current_file_path, Cids(s.annotations))]

\* Mutant of save_annotations: the label path is taken from the row of the
\* file list at current_index, whatever current_file_path says.
save_annotations_by_index(s) ==
    IF ~s.current_image THEN s
    ELSE
    LET inrange == /\ s.filtered_image_paths # <<>>
                   /\ s.current_index >= 0
                   /\ s.current_index < Len(s.filtered_image_paths)
    IN  IF ~inrange THEN s
        ELSE
        LET path == s.filtered_image_paths[s.current_index + 1]
        IN  CASE s.disk_mode = "readonly" -> [s EXCEPT !.exc = "OSError"]
              [] s.disk_mode = "full" /\ s.annotations # <<>> ->
                    [s EXCEPT !.label_files[path] = File(<<>>), !.exc = "OSError"]
              [] OTHER ->
                    [s EXCEPT !.label_files[path] = WriteLines(s.annotations),
                              !.image_to_classes_cache =
                                  CachePut(@, path, Cids(s.annotations))]

\* save_annotations.  open(lbl_path, 'w') raises on a read-only disk and leaves
\* the file alone; on a full disk it truncates the file and the write raises
\* (nothing is written for an empty list, which succeeds).
save_annotations(s) ==
    IF ~s.current_image THEN s
    ELSE
    LET inrange == /\ s.filtered_image_paths # <<>>
                   /\ s.current_index >= 0
                   /\ s.current_index < Len(s.filtered_image_paths)
    IN  IF s.current_file_path = NoPath /\ ~inrange THEN s
        ELSE
        LET path == IF s.current_file_path # NoPath THEN s.current_file_path
                    ELSE s.filtered_image_paths[s.current_index + 1]
        IN  CASE s.disk_mode = "readonly" -> [s EXCEPT !.exc = "OSError"]
              [] s.disk_mode = "full" /\ s.annotations # <<>> ->
                    [s EXCEPT !.label_files[path] = File(<<>>), !.exc = "OSError"]
              [] OTHER ->
                    [s EXCEPT !.label_files[path] = WriteLines(s.annotations),
                              !.image_to_classes_cache =
                                  CachePut(@, path, Cids(s.annotations))]

\* Mutant of load_image: the annotations are not flushed before the image changes.
load_image_no_flush(s, index) ==
    IF s.filtered_image_paths = <<>> \/ ~(0 <= index /\ index < Len(s.filtered_image_paths))
    THEN s
    ELSE
    LET path == s.filtered_image_paths[index + 1]
        parsed == ParseLabel(s.label_files[path])
    IN  [s EXCEPT !.current_index = index, !.current_image = TRUE,
                  !.current_file_path = path, !.annotations = Sanitize(parsed)]

\* load_image.  Image.open raises when the image file is gone.
load_image(s, index) ==
    IF s.filtered_image_paths = <<>> \/ ~(0 <= index /\ index < Len(s.filtered_image_paths))
    THEN s
    ELSE
    LET s1 == IF s.current_image /\ s.current_file_path # NoPath
              THEN save_annotations(s) ELSE s
        path == s.filtered_image_paths[index + 1]
    IN  IF s1.exc # "" THEN s1
        ELSE IF path \notin s1.image_files
        THEN [s1 EXCEPT !.current_index = index, !.current_image = FALSE,
                        !.current_file_path = NoPath, !.annotations = <<>>]
        ELSE
        LET parsed == ParseLabel(s1.label_files[path])
            s2 == [s1 EXCEPT !.current_index = index, !.current_image = TRUE,
                             !.current_file_path = path,
                             !.annotations = Sanitize(parsed)]
        IN  IF NeedsResave(parsed) /\ s2.annotations # <<>>
            THEN save_annotations(s2) ELSE s2

\* ------------------------------------------------------------------ undo stacks

\* self.max_undo_size.
max_undo_size == 50

\* An entry (file_path, annotations_copy) of the undo and redo stacks.
Entry(path, anns) == [path |-> path, anns |-> anns]

\* Mutant of _push_annotation_undo: the redo stack is kept.
push_annotation_undo_keep_redo(s) ==
    IF s.current_file_path = NoPath THEN s
    ELSE [s EXCEPT !.annotation_undo_stack =
                        Append(@, Entry(s.current_file_path, s.annotations))]

\* Mutant of _push_annotation_undo: the newest entry is evicted, not the oldest.
push_annotation_undo_evict_newest(s) ==
    IF s.current_file_path = NoPath THEN s
    ELSE
    LET pushed == Append(s.annotation_undo_stack,
                         Entry(s.current_file_path, s.annotations))
    IN  [s EXCEPT !.annotation_redo_stack = <<>>,
                  !.annotation_undo_stack =
                      IF Len(pushed) > max_undo_size
                      THEN SubSeq(pushed, 1, Len(pushed) - 1) ELSE pushed]

\* Mutant of _push_annotation_undo: the oldest entry is evicted one push late.
push_annotation_undo_evict_late(s) ==
    IF s.current_file_path = NoPath THEN s
    ELSE
    LET pushed == Append(s.annotation_undo_stack,
                         Entry(s.current_file_path, s.annotations))
    IN  [s EXCEPT !.annotation_redo_stack = <<>>,
                  !.annotation_undo_stack =
                      IF Len(pushed) > max_undo_size + 1 THEN Tail(pushed) ELSE pushed]

\* _push_annotation_undo.
push_annotation_undo(s) ==
    IF s.current_file_path = NoPath THEN s
    ELSE
    LET pushed == Append(s.annotation_undo_stack,
                         Entry(s.current_file_path, s.annotations))
    IN  [s EXCEPT !.annotation_redo_stack = <<>>,
                  !.annotation_undo_stack =
                      IF Len(pushed) > max_undo_size THEN Tail(pushed) ELSE pushed]

\* ------------------------------------------------------------------ edits

\* on_mouse_up in drag mode "create": a new box of the selected class.
on_mouse_up(s, box) ==
    LET s1 == push_annotation_undo(s)
        new_ann == Ann(s.selected_class_id, box.cx, box.cy, box.w, box.h)
    IN  save_annotations([s1 EXCEPT !.annotations = Append(@, new_ann)])

\* on_right_click on annotation hit_index (1-based here).
on_right_click(s, hit_index) ==
    LET s1 == push_annotation_undo(s)
    IN  save_annotations([s1 EXCEPT !.annotations = DelAt(@, hit_index)])

\* clear_all_annotations_quick.
clear_all_annotations_quick(s) ==
    IF ~s.current_image \/ s.annotations = <<>> THEN s
    ELSE LET s1 == push_annotation_undo(s)
         IN  save_annotations([s1 EXCEPT !.annotations = <<>>])

\* set_class_by_index.
set_class_by_index(s, idx) ==
    IF idx \in Classes THEN [s EXCEPT !.selected_class_id = idx] ELSE s

\* ------------------------------------------------------------------ navigation

\* next_image.
next_image(s) ==
    IF s.filtered_image_paths = <<>> THEN s
    ELSE IF s.current_index < Len(s.filtered_image_paths) - 1
    THEN load_image(s, s.current_index + 1)
    ELSE load_image(s, 0)

\* prev_image.
prev_image(s) ==
    IF s.filtered_image_paths = <<>> THEN s
    ELSE IF s.current_index > 0
    THEN load_image(s, s.current_index - 1)
    ELSE load_image(s, Len(s.filtered_image_paths) - 1)

\* on_file_selected: a click on row sel of the file list.
on_file_selected(s, sel) == load_image(s, sel)

\* go_to_image_dialog: the user enters id `result`; `clear` is the answer to
\* "Clear filter to show all images?" when the image is hidden by the filter.
go_to_image_dialog(s, result, clear) ==
    IF s.image_paths = <<>> THEN s
    ELSE
    LET hits == {p \in DOMAIN s.image_id_map : s.image_id_map[p] = result}
    IN  IF hits = {} THEN s
        ELSE
        LET target_path == CHOOSE p \in hits : TRUE
        IN  IF Contains(s.filtered_image_paths, target_path)
            THEN load_image(s, IndexOf(s.filtered_image_paths, target_path))
            ELSE IF ~clear THEN s
            ELSE
            LET s1 == refresh_file_list([s EXCEPT !.filter_mode = ModeAll])
            IN  IF Contains(s1.filtered_image_paths, target_path)
                THEN load_image(s1, IndexOf(s1.filtered_image_paths, target_path))
                ELSE s1

\* on_filter_changed: the user picks `val` in the filter combo box.
on_filter_changed(s, val) ==
    LET s1 == IF s.current_image THEN save_annotations(s) ELSE s
    IN  IF s1.exc # "" THEN s1
        ELSE
        LET s2 == IF s.current_image
                  THEN [s1 EXCEPT !.current_image = FALSE, !.current_file_path = NoPath]
                  ELSE s1
            has_path == 0 <= s2.current_index
                            /\ s2.current_index < Len(s2.filtered_image_paths)
            current_path == IF has_path
                            THEN s2.filtered_image_paths[s2.current_index + 1]
                            ELSE NoPath
            s3 == [s2 EXCEPT !.filter_mode = val, !.custom_query_paths = {}]
            s4 == refresh_file_list(build_annotation_cache_and_stats(s3))
            new_index == IF has_path /\ Contains(s4.filtered_image_paths, current_path)
                         THEN IndexOf(s4.filtered_image_paths, current_path)
                         ELSE 0
        IN  IF s4.filtered_image_paths # <<>>
            THEN load_image(s4, new_index)
            ELSE [s4 EXCEPT !.current_image = FALSE, !.current_index = -1,
                            !.annotations = <<>>]

\* ------------------------------------------------------------------ custom query

\* A row of the query dialog: how it joins the result so far, the class, the
\* comparison and the count.
Cond(logic, cls, op, count) ==
    [logic |-> logic, cls |-> cls, op |-> op, count |-> count]

\* get_class_counts: per class, the lines of the label file whose first field
\* is that class id.
get_class_counts(f) ==
    [c \in Classes |->
        IF f.exists
        THEN Cardinality({i \in 1..Len(f.lines) :
                             f.lines[i].kind # "junk" /\ f.lines[i].cid = c})
        ELSE 0]

\* evaluate_condition.
evaluate_condition(cond, class_counts) ==
    LET target == cond.count
        actual == class_counts[cond.cls]
    IN  CASE cond.op = "=" -> actual = target
          [] cond.op = "!=" -> actual # target
          [] cond.op = "<" -> actual < target
          [] cond.op = ">" -> actual > target
          [] cond.op = "<=" -> actual <= target
          [] cond.op = ">=" -> actual >= target
          [] OTHER -> FALSE

\* find_matches with AND binding tighter than OR.
find_matches_with_precedence(s, conditions) ==
    LET Result(p) ==
            LET class_counts == get_class_counts(s.label_files[p])
                cond_result(i) == evaluate_condition(conditions[i], class_counts)
                term[i \in 1..Len(conditions)] ==
                    IF i = 1 \/ conditions[i].logic = "OR" THEN cond_result(i)
                    ELSE term[i - 1] /\ cond_result(i)
                sum[i \in 1..Len(conditions)] ==
                    IF i = 1 THEN FALSE
                    ELSE IF conditions[i].logic = "OR" THEN sum[i - 1] \/ term[i - 1]
                    ELSE sum[i - 1]
            IN  sum[Len(conditions)] \/ term[Len(conditions)]
    IN  IF conditions = <<>> THEN <<>>
        ELSE SelectSeq(s.image_paths, Result)

\* find_matches with the running result starting as True instead of None.
find_matches_from_true(s, conditions) ==
    LET Result(p) ==
            LET class_counts == get_class_counts(s.label_files[p])
                result[i \in 0..Len(conditions)] ==
                    IF i = 0 THEN TRUE
                    ELSE LET cond_result ==
                                 evaluate_condition(conditions[i], class_counts)
                             logic == conditions[i].logic
                         IN  IF logic = "AND" THEN result[i - 1] /\ cond_result
                             ELSE IF logic = "OR" THEN result[i - 1] \/ cond_result
                             ELSE cond_result
            IN  result[Len(conditions)]
    IN  SelectSeq(s.image_paths, Result)

\* find_matches: the images of the workspace for which the conditions, folded
\* from the first to the last, give True.  `result` is None before the first
\* condition and the value of the fold after it.
find_matches(s, conditions) ==
    LET Result(p) ==
            LET class_counts == get_class_counts(s.label_files[p])
                result[i \in 1..Len(conditions)] ==
                    LET cond_result ==
                            evaluate_condition(conditions[i], class_counts)
                        logic == conditions[i].logic
                    IN  IF i = 1 THEN cond_result
                        ELSE IF logic = "AND" THEN result[i - 1] /\ cond_result
                        ELSE IF logic = "OR" THEN result[i - 1] \/ cond_result
                        ELSE result[i - 1]
            IN  result[Len(conditions)]
    IN  IF conditions = <<>> THEN <<>>
        ELSE SelectSeq(s.image_paths, Result)

\* apply_filter: the Apply button of the query dialog.
apply_filter(s, conditions) ==
    LET matches == find_matches(s, conditions)
    IN  IF matches = <<>> THEN [s EXCEPT !.shown = "No Matches"]
        ELSE
        LET s1 == [s EXCEPT !.last_query_conditions = conditions,
                            !.custom_query_paths = Range(matches),
                            !.filter_mode = ModeQuery]
            s2 == refresh_file_list(s1)
        IN  IF s2.filtered_image_paths # <<>> THEN load_image(s2, 0) ELSE s2

\* _load_images_from_dir: the directory is scanned again.
load_images_from_dir(s) ==
    LET paths == SortedSeq(s.image_files)
        s1 == [s EXCEPT !.image_paths = paths,
                        !.image_id_map = [p \in Range(paths) |-> IndexOf(paths, p) + 1]]
        s2 == build_annotation_cache_and_stats(s1)
        s3 == refresh_file_list([s2 EXCEPT !.filter_mode = ModeAll,
                                           !.custom_query_paths = {}])
    IN  IF s3.image_paths # <<>> THEN load_image(s3, 0)
        ELSE [s3 EXCEPT !.current_image = FALSE]

\* refresh_workspace (F5).
refresh_workspace(s) ==
    LET s1 == IF s.current_image /\ s.current_file_path # NoPath
              THEN save_annotations(s) ELSE s
        has_path == s.filtered_image_paths # <<>> /\ 0 <= s.current_index
                        /\ s.current_index < Len(s.filtered_image_paths)
        current_path == IF has_path THEN s.filtered_image_paths[s.current_index + 1]
                        ELSE NoPath
    IN  IF s1.exc # "" THEN s1
        ELSE
        LET s2 == load_images_from_dir(s1)
        IN  IF s2.exc # "" THEN s2
            ELSE IF has_path /\ Contains(s2.filtered_image_paths, current_path)
            THEN load_image(s2, IndexOf(s2.filtered_image_paths, current_path))
            ELSE IF s2.filtered_image_paths # <<>> THEN load_image(s2, 0)
            ELSE s2

\* ------------------------------------------------------------------ deletion

\* An entry (image_path, label_path, image_data, label_data) of the deletion
\* stack; the label path is the image's, label_data is NoFile for None.
Deleted(img_path, img_data, lbl_data) ==
    [img_path |-> img_path, img_data |-> img_data, lbl_data |-> lbl_data]

\* The tail of _do_delete_current_image: the lists after the files are gone.
AfterDeleteCurrent(s, img_path) ==
    LET s1 == [s EXCEPT !.image_paths = Remove(@, img_path),
                        !.image_to_classes_cache = CacheDel(@, img_path),
                        !.custom_query_paths = @ \ {img_path},
                        !.current_image = FALSE,
                        !.current_file_path = NoPath,
                        !.annotations = <<>>]
        s2 == refresh_file_list(s1)
        new_idx == Min2(s2.current_index, Len(s2.filtered_image_paths) - 1)
    IN  IF s2.filtered_image_paths # <<>>
        THEN load_image(s2, Max2(0, new_idx))
        ELSE [s2 EXCEPT !.current_image = FALSE]

\* _do_delete_current_image.  os.remove raises on a read-only disk.
do_delete_current_image(s) ==
    IF ~(0 <= s.current_index /\ s.current_index < Len(s.filtered_image_paths))
    THEN [s EXCEPT !.exc = "IndexError"]
    ELSE
    LET img_path == s.filtered_image_paths[s.current_index + 1]
        entry == Deleted(img_path, img_path \in s.image_files, s.label_files[img_path])
        s1 == [s EXCEPT !.deleted_files_stack = Append(@, entry)]
        on_disk == img_path \in s.image_files \/ s.label_files[img_path].exists
    IN  IF s.disk_mode = "readonly" /\ on_disk
        THEN [s1 EXCEPT !.shown = "Delete Error"]
        ELSE AfterDeleteCurrent(
                 [s1 EXCEPT !.image_files = @ \ {img_path},
                            !.label_files[img_path] = NoFile], img_path)

\* delete_current_image_quick (Delete key).
delete_current_image_quick(s) ==
    IF ~s.current_image \/ s.filtered_image_paths = <<>> THEN s
    ELSE do_delete_current_image(s)

RECURSIVE DeleteEach(_, _)
\* The loop of delete_selected_files over paths_to_delete.
DeleteEach(s, paths) ==
    IF paths = <<>> THEN s
    ELSE
    LET img_path == Head(paths)
        entry == Deleted(img_path, img_path \in s.image_files, s.label_files[img_path])
        s1 == [s EXCEPT !.deleted_files_stack = Append(@, entry)]
        on_disk == img_path \in s.image_files \/ s.label_files[img_path].exists
        s2 == IF s.disk_mode = "readonly" /\ on_disk THEN s1
              ELSE [s1 EXCEPT !.image_files = @ \ {img_path},
                              !.label_files[img_path] = NoFile,
                              !.image_paths = Remove(@, img_path),
                              !.image_to_classes_cache = CacheDel(@, img_path)]
    IN  DeleteEach(s2, Tail(paths))

RECURSIVE Descending(_)
\* sorted(indices, reverse=True).
Descending(S) ==
    IF S = {} THEN <<>>
    ELSE LET m == CHOOSE x \in S : \A y \in S : x >= y
         IN  <<m>> \o Descending(S \ {m})

\* delete_selected_files, confirmed, for a non-empty set of rows of the file list.
delete_selected_files(s, indices) ==
    LET s1 == IF s.current_image THEN save_annotations(s) ELSE s
    IN  IF s1.exc # "" THEN s1
        ELSE
        LET order == Descending({i \in indices : i < Len(s1.filtered_image_paths)})
            paths_to_delete == [k \in 1..Len(order) |-> s1.filtered_image_paths[order[k] + 1]]
            s2 == DeleteEach(s1, paths_to_delete)
            s3 == refresh_file_list([s2 EXCEPT !.current_image = FALSE,
                                               !.annotations = <<>>])
        IN  IF s3.filtered_image_paths # <<>> THEN load_image(s3, 0)
            ELSE [s3 EXCEPT !.current_index = -1]

RECURSIVE ClearEach(_, _)
\* The loop of clear_selected_files_annotations: open(lbl_path, 'w') of an
\* existing label file, which only a read-only disk refuses.
ClearEach(s, paths) ==
    IF paths = <<>> THEN s
    ELSE
    LET img_path == Head(paths)
        s1 == IF s.label_files[img_path].exists /\ s.disk_mode # "readonly"
              THEN [s EXCEPT !.label_files[img_path] = File(<<>>),
                             !.image_to_classes_cache = CachePut(@, img_path, {})]
              ELSE s
    IN  ClearEach(s1, Tail(paths))

\* clear_selected_files_annotations, confirmed.
clear_selected_files_annotations(s, indices) ==
    LET s1 == IF s.current_image THEN save_annotations(s) ELSE s
    IN  IF s1.exc # "" THEN s1
        ELSE
        LET order == SortedSeq({i \in indices : i < Len(s1.filtered_image_paths)})
            paths == [k \in 1..Len(order) |-> s1.filtered_image_paths[order[k] + 1]]
            s2 == refresh_file_list(build_annotation_cache_and_stats(ClearEach(s1, paths)))
        IN  IF s2.current_index >= 0 /\ s2.current_index < Len(s2.filtered_image_paths)
            THEN load_image(s2, s2.current_index)
            ELSE s2

\* ------------------------------------------------------------------ undo and redo

\* list.pop() leaves this.
Front(seq) == SubSeq(seq, 1, Len(seq) - 1)

Last(seq) == seq[Len(seq)]

\* Mutant of OnRestoreError: the entry of a failed restore is pushed back.
OnRestoreErrorRepush(s, e) ==
    [s EXCEPT !.exc = "", !.shown = "Undo Error",
              !.deleted_files_stack = Append(@, e)]

\* undo_action's except clause: the error is shown, entry e stays popped.
OnRestoreError(s, e) == [s EXCEPT !.exc = "", !.shown = "Undo Error"]

\* The second half of undo_action: the newest deletion is restored.  A write
\* error is caught and shown; the popped entry is gone either way.
RestoreDeleted(s) ==
    IF s.deleted_files_stack = <<>> THEN s
    ELSE
    LET e == Last(s.deleted_files_stack)
        s1 == [s EXCEPT !.deleted_files_stack = Front(@)]
        lbl_truthy == e.lbl_data.exists /\ e.lbl_data.lines # <<>>
    IN  IF s.disk_mode # "ok" /\ (e.img_data \/ lbl_truthy)
        THEN OnRestoreError(s1, e)
        ELSE
        LET s2 == [s1 EXCEPT
                      !.image_files = IF e.img_data THEN @ \cup {e.img_path} ELSE @,
                      !.label_files[e.img_path] = IF lbl_truthy THEN e.lbl_data ELSE @,
                      !.image_paths = IF Contains(@, e.img_path) THEN @
                                      ELSE SortedSeq(Range(@) \cup {e.img_path})]
            s3 == refresh_file_list(build_annotation_cache_and_stats(s2))
            s4 == IF Contains(s3.filtered_image_paths, e.img_path)
                  THEN load_image(s3, IndexOf(s3.filtered_image_paths, e.img_path))
                  ELSE s3
        IN  IF s4.exc # "" THEN OnRestoreError(s4, e) ELSE s4

\* undo_action (Ctrl+Z).
undo_action(s) ==
    IF s.annotation_undo_stack = <<>> THEN RestoreDeleted(s)
    ELSE
    LET top == Last(s.annotation_undo_stack)
        s1 == [s EXCEPT !.annotation_undo_stack = Front(@)]
        s2 == IF s1.current_file_path # NoPath
              THEN [s1 EXCEPT !.annotation_redo_stack =
                                  Append(@, Entry(s1.current_file_path, s1.annotations))]
              ELSE s1
    IN  IF top.path = s2.current_file_path
        THEN save_annotations([s2 EXCEPT !.annotations = top.anns])
        ELSE IF Contains(s2.filtered_image_paths, top.path)
        THEN LET s3 == load_image(s2, IndexOf(s2.filtered_image_paths, top.path))
             IN  IF s3.exc # "" THEN s3
                 ELSE save_annotations([s3 EXCEPT !.annotations = top.anns])
        ELSE RestoreDeleted(s2)

\* redo_action (Ctrl+Y).
redo_action(s) ==
    IF s.annotation_redo_stack = <<>> THEN s
    ELSE
    LET top == Last(s.annotation_redo_stack)
        s1 == [s EXCEPT !.annotation_redo_stack = Front(@)]
        s2 == IF s1.current_file_path # NoPath
              THEN [s1 EXCEPT !.annotation_undo_stack =
                                  Append(@, Entry(s1.current_file_path, s1.annotations))]
              ELSE s1
    IN  IF top.path = s2.current_file_path
        THEN save_annotations([s2 EXCEPT !.annotations = top.anns])
        ELSE IF Contains(s2.filtered_image_paths, top.path)
        THEN LET s3 == load_image(s2, IndexOf(s2.filtered_image_paths, top.path))
             IN  IF s3.exc # "" THEN s3
                 ELSE save_annotations([s3 EXCEPT !.annotations = top.anns])
        ELSE s2

\* save_annotations bound to the "s" key and the "Manually Save" button.
save_key(s) == save_annotations(s)

\* ------------------------------------------------------------------ batch job

\* self.iou_threshold, in percent.
iou_threshold == 50

\* coord_tolerance of _is_duplicate_or_overlapping (0.02).
coord_tolerance == 200000

\* The grid on which the areas of _boxes_overlap are computed here (10^-3): the
\* products of two coordinates in model units do not fit the integers of TLC.
AreaUnit == ONE \div 1000

\* The merge modes of the mode dialog.
Modes == {"add_missing", "unannotated_only", "overwrite"}

\* A detection of model.predict; `confident` is whether its score reaches the
\* threshold of its class.
Det(cid, cx, cy, w, h, confident) ==
    [cid |-> cid, cx |-> cx, cy |-> cy, w |-> w, h |-> h, confident |-> confident]

\* _boxes_overlap: IoU > threshold, on doubled corner coordinates.
boxes_overlap(box1, box2, threshold) ==
    LET x1_min == 2 * (box1.cx \div AreaUnit) - (box1.w \div AreaUnit)
        x1_max == 2 * (box1.cx \div AreaUnit) + (box1.w \div AreaUnit)
        y1_min == 2 * (box1.cy \div AreaUnit) - (box1.h \div AreaUnit)
        y1_max == 2 * (box1.cy \div AreaUnit) + (box1.h \div AreaUnit)
        x2_min == 2 * (box2.cx \div AreaUnit) - (box2.w \div AreaUnit)
        x2_max == 2 * (box2.cx \div AreaUnit) + (box2.w \div AreaUnit)
        y2_min == 2 * (box2.cy \div AreaUnit) - (box2.h \div AreaUnit)
        y2_max == 2 * (box2.cy \div AreaUnit) + (box2.h \div AreaUnit)
        inter_x == Max2(0, Min2(x1_max, x2_max) - Max2(x1_min, x2_min))
        inter_y == Max2(0, Min2(y1_max, y2_max) - Max2(y1_min, y2_min))
        inter_area == inter_x * inter_y
        area1 == 4 * (box1.w \div AreaUnit) * (box1.h \div AreaUnit)
        area2 == 4 * (box2.w \div AreaUnit) * (box2.h \div AreaUnit)
        union_area == area1 + area2 - inter_area
    IN  IF union_area <= 0 THEN FALSE
        ELSE 100 * inter_area > threshold * union_area

\* _is_duplicate_annotation: the coordinate test alone.
is_duplicate_annotation(new_ann, existing_annotations) ==
    \E i \in 1..Len(existing_annotations) :
        LET ann == existing_annotations[i]
        IN  /\ ann.cid = new_ann.cid
            /\ Abs(ann.cx - new_ann.cx) < coord_tolerance
            /\ Abs(ann.cy - new_ann.cy) < coord_tolerance
            /\ Abs(ann.w - new_ann.w) < coord_tolerance
            /\ Abs(ann.h - new_ann.h) < coord_tolerance

\* The two tests without the test of the class.
is_duplicate_or_overlapping_any_class(new_ann, existing_annotations) ==
    \E i \in 1..Len(existing_annotations) :
        LET ann == existing_annotations[i]
        IN  \/ /\ Abs(ann.cx - new_ann.cx) < coord_tolerance
               /\ Abs(ann.cy - new_ann.cy) < coord_tolerance
               /\ Abs(ann.w - new_ann.w) < coord_tolerance
               /\ Abs(ann.h - new_ann.h) < coord_tolerance
            \/ boxes_overlap(new_ann, ann, iou_threshold)

\* _is_duplicate_or_overlapping.
is_duplicate_or_overlapping(new_ann, existing_annotations) ==
    \E i \in 1..Len(existing_annotations) :
        LET ann == existing_annotations[i]
        IN  /\ ann.cid = new_ann.cid
            /\ \/ /\ Abs(ann.cx - new_ann.cx) < coord_tolerance
                  /\ Abs(ann.cy - new_ann.cy) < coord_tolerance
                  /\ Abs(ann.w - new_ann.w) < coord_tolerance
                  /\ Abs(ann.h - new_ann.h) < coord_tolerance
               \/ boxes_overlap(new_ann, ann, iou_threshold)

\* _load_annotations_from_file.
load_annotations_from_file(f) == ParseLabel(f)

\* What the worker has collected for one image.
Collected(new_lines, skipped_dupes) ==
    [new_lines |-> new_lines, skipped_dupes |-> skipped_dupes]

RECURSIVE CollectDetections(_, _, _, _, _)
\* The worker's loop over the detections of one image: class and confidence
\* filter, duplicate check of add_missing, one 6-decimal line per detection kept.
CollectDetections(dets, mode, allowed_classes, existing_anns, acc) ==
    IF dets = <<>> THEN acc
    ELSE
    LET d == Head(dets)
        new_ann == Ann(d.cid, d.cx, d.cy, d.w, d.h)
        new_anns_so_far ==
            [k \in 1..Len(acc.new_lines) |->
                Ann(acc.new_lines[k].cid, acc.new_lines[k].cx, acc.new_lines[k].cy,
                    acc.new_lines[k].w, acc.new_lines[k].h)]
        line == Line("full", d.cid, Fmt6(d.cx), Fmt6(d.cy), Fmt6(d.w), Fmt6(d.h))
        next == IF d.cid \notin allowed_classes \/ ~d.confident THEN acc
                ELSE IF mode = "add_missing"
                        /\ (\/ is_duplicate_or_overlapping(new_ann, existing_anns)
                            \/ is_duplicate_or_overlapping(new_ann, new_anns_so_far))
                THEN [acc EXCEPT !.skipped_dupes = @ + 1]
                ELSE [acc EXCEPT !.new_lines = Append(@, line)]
    IN  CollectDetections(Tail(dets), mode, allowed_classes, existing_anns, next)

\* line if line.endswith('\n') else line + '\n'.
Terminated(l) == IF l.kind = "open" THEN [l EXCEPT !.kind = "full"] ELSE l

\* Every line of five fields or more is kept, whatever its class.
PreservedLinesAll(f, allowed_classes) ==
    IF f.exists
    THEN LET kept == SelectSeq(f.lines, LAMBDA l : l.kind = "junk" \/ Parses(l))
         IN  [k \in 1..Len(kept) |-> Terminated(kept[k])]
    ELSE <<>>

\* The lines the overwrite mode keeps: five fields or more, and a class that is
\* not selected or no class at all.
PreservedLines(f, allowed_classes) ==
    IF f.exists
    THEN LET kept == SelectSeq(f.lines,
                               LAMBDA l : \/ l.kind = "junk"
                                          \/ Parses(l) /\ l.cid \notin allowed_classes)
         IN  [k \in 1..Len(kept) |-> Terminated(kept[k])]
    ELSE <<>>

\* The text of line `first` written right behind an "open" line l: the class id
\* of `first` becomes the seventh decimal of the last number of l, the numbers
\* of `first` become the fields six to nine.
Glue(l, first) == [l EXCEPT !.kind = "glued", !.h = @ + first.cid]

\* open(lbl, 'a') and writelines(new_lines) on a file that holds `lines`.
AppendLines(lines, new_lines) ==
    IF lines # <<>> /\ Last(lines).kind = "open"
    THEN Front(lines) \o <<Glue(Last(lines), Head(new_lines))>> \o Tail(new_lines)
    ELSE lines \o new_lines

\* The worker's write of one image: the label file it leaves, the lines it
\* counts as added, and whether it counts the image as unchanged.
WorkerWrites(f, mode, allowed_classes, new_lines) ==
    IF mode = "overwrite"
    THEN LET preserved_lines == PreservedLines(f, allowed_classes)
             all_lines == preserved_lines \o new_lines
         IN  IF all_lines # <<>>
             THEN [file |-> File(all_lines), cnt |-> Len(new_lines), skipped |-> 0]
             ELSE IF f.exists /\ preserved_lines = <<>>
             THEN [file |-> File(<<>>), cnt |-> 0, skipped |-> 0]
             ELSE [file |-> f, cnt |-> 0, skipped |-> 1]
    ELSE IF new_lines # <<>>
    THEN [file |-> File(AppendLines(IF f.exists THEN f.lines ELSE <<>>, new_lines)),
          cnt |-> Len(new_lines), skipped |-> 0]
    ELSE [file |-> f, cnt |-> 0, skipped |-> 1]

\* The shared progress dict.
Progress(i, cnt, skipped_images, skipped_dupes, done) ==
    [i |-> i, cnt |-> cnt, skipped_images |-> skipped_images,
     skipped_dupes |-> skipped_dupes, done |-> done]

\* No batch job: no progress dialog, no worker thread.
\* `predicted` are the images passed to model.predict, `errors` the images the
\* except clause of the worker printed an error for; `dets` and `existing_anns`
\* are the worker's locals between its read and its write of an image.
NoJob ==
    [dialog |-> FALSE, thread |-> "none", mode |-> "", allowed_classes |-> {},
     image_paths |-> <<>>, i |-> 0, dets |-> <<>>, existing_anns |-> <<>>,
     new_lines |-> <<>>, skipped_dupes |-> 0, predicted |-> {}, errors |-> {},
     cancelled |-> FALSE, progress |-> Progress(0, 0, 0, 0, FALSE)]

\* The closure of auto_annotate_all once the worker thread is started.
StartedJob(mode, allowed_classes, paths) ==
    [NoJob EXCEPT !.dialog = TRUE, !.thread = "loop", !.mode = mode,
                  !.allowed_classes = allowed_classes, !.image_paths = paths]

\* The worker leaves its loop and does not say so in the progress record.
WorkerDoneUnannounced(j) ==
    [j EXCEPT !.thread = "none", !.progress.skipped_dupes = j.skipped_dupes]

\* The worker leaves its loop (all images done, or the cancel flag seen).
WorkerDone(j) ==
    [j EXCEPT !.thread = "none", !.progress.done = TRUE,
              !.progress.skipped_dupes = j.skipped_dupes]

\* The worker is at the end of its list, whatever the cancel flag says.
LeavesLoopIgnoringCancel(j) == j.i >= Len(j.image_paths)

\* The worker's test at the top of its loop: no image is left, or the cancel
\* flag is set.
LeavesLoop(j) == j.i >= Len(j.image_paths) \/ j.cancelled

\* mode == "unannotated_only" and existing_anns.
SkipsAnnotatedNever(mode, existing_anns) == FALSE

SkipsAnnotated(mode, existing_anns) ==
    mode = "unannotated_only" /\ existing_anns # <<>>

\* The except clause without the progress update behind it.
OnWorkerErrorNoProgress(j, p) ==
    [j EXCEPT !.errors = @ \cup {p}, !.i = @ + 1]

\* An exception ends the processing of image p and with it the whole job.
OnWorkerErrorAbort(j, p) ==
    WorkerDone([j EXCEPT !.errors = @ \cup {p}])

\* The except clause of the worker for image p, and the progress update behind it.
OnWorkerError(j, p) ==
    [j EXCEPT !.errors = @ \cup {p}, !.i = @ + 1, !.progress.i = j.i + 1,
              !.progress.skipped_dupes = j.skipped_dupes]

\* The first half of one iteration of the worker: the existing annotations are
\* read, the image is opened and model.predict is called; it raises, or returns
\* the detections `dets`, which are collected.
WorkerReads(j, files, images, dets, raises) ==
    LET p == j.image_paths[j.i + 1]
        existing_anns == load_annotations_from_file(files[p])
        got == CollectDetections(dets, j.mode, j.allowed_classes, existing_anns,
                                 Collected(<<>>, j.skipped_dupes))
    IN  IF SkipsAnnotated(j.mode, existing_anns)
        THEN [j EXCEPT !.i = @ + 1, !.progress.i = j.i + 1,
                       !.progress.skipped_images = @ + 1]
        ELSE IF p \notin images
        THEN OnWorkerError(j, p)
        ELSE IF raises
        THEN OnWorkerError([j EXCEPT !.predicted = @ \cup {p}], p)
        ELSE [j EXCEPT !.thread = "write", !.dets = dets,
                       !.existing_anns = existing_anns,
                       !.new_lines = got.new_lines,
                       !.skipped_dupes = got.skipped_dupes,
                       !.predicted = @ \cup {p}]

\* The second half: the label file is written and the progress is published.
WorkerPublishes(j, w) ==
    [j EXCEPT !.thread = "loop", !.dets = <<>>, !.existing_anns = <<>>,
              !.new_lines = <<>>, !.i = @ + 1,
              !.progress = Progress(j.i + 1, @.cnt + w.cnt,
                                    @.skipped_images + w.skipped,
                                    j.skipped_dupes, FALSE)]

\* The finalising branch of poll_progress: the index is rebuilt, the in-memory
\* state of the open image is dropped and the image is loaded again.
poll_progress(s) ==
    load_image([build_annotation_cache_and_stats(s) EXCEPT
                    !.current_image = FALSE, !.current_file_path = NoPath,
                    !.annotations = <<>>],
               s.current_index)

\* ------------------------------------------------------------------ dataset reduction

\* A file name of the images directory: stem 1, 2, 3 (a, b, c) with extension
\* 0 or 1 (.jpg, .png).  Name(stem, ext) is the rank of the name in the order
\* of list.sort(): a.jpg < a.png < b.jpg < b.png < c.jpg < c.png.
Name(stem, ext) == 2 * stem + ext

\* os.path.splitext(f)[0]: the label of image f is the stem of f with ".txt".
Stem(f) == f \div 2

\* The directories images/, labels/, skipped_images/images/ and
\* skipped_images/labels/ of the workspace (a label file by its stem).
Dataset(images, labels, skipped_images, skipped_labels) ==
    [images |-> images, labels |-> labels, skipped_images |-> skipped_images,
     skipped_labels |-> skipped_labels]

\* reduce_dataset has not been called.
NoReduction ==
    [target_count |-> -1, method |-> "", action |-> "", all_images |-> <<>>,
     segments |-> <<>>, indices_list |-> <<>>, kept_files |-> <<>>,
     excluded_files |-> <<>>]

\* method "uniform": idx = min(int((i + 0.5) * (n / k)), n - 1) for i in
\* range(k), here for i in 1..k.
UniformIndices(n, k) ==
    [i \in 1..k |-> Min2(((2 * (i - 1) + 1) * n) \div (2 * k), n - 1)]

\* The segments with the extra elements given to the last n % k of them.
StratifiedSegmentsExtraLast(n, k) ==
    LET base == n \div k
        rem == n % k
        seg_size(i) == base + (IF i - 1 >= k - rem THEN 1 ELSE 0)
        start[i \in 1..k] == IF i = 1 THEN 0 ELSE start[i - 1] + seg_size(i - 1)
    IN  [i \in 1..k |-> [start |-> start[i], seg_size |-> seg_size(i)]]

\* The segments without `start += seg_size`.
StratifiedSegmentsFromZero(n, k) ==
    LET base == n \div k
        rem == n % k
        seg_size(i) == base + (IF i - 1 < rem THEN 1 ELSE 0)
    IN  [i \in 1..k |-> [start |-> 0, seg_size |-> seg_size(i)]]

\* method "stratified": start and seg_size of the loop for i in range(k),
\* here for i in 1..k.
StratifiedSegments(n, k) ==
    LET base == n \div k
        rem == n % k
        seg_size(i) == base + (IF i - 1 < rem THEN 1 ELSE 0)
        start[i \in 1..k] == IF i = 1 THEN 0 ELSE start[i - 1] + seg_size(i - 1)
    IN  [i \in 1..k |-> [start |-> start[i], seg_size |-> seg_size(i)]]

\* reduce_dataset(workspace_path, target_count, method, action) on the
\* directories d; rnd[i] is what rnd.randrange(seg_size) returns for segment i.
reduce_dataset(d, target_count, method, action, rnd) ==
    LET all_images == SortedSeq(d.images)
        total == Len(all_images)
        called == [NoReduction EXCEPT !.target_count = target_count,
                                      !.method = method, !.action = action,
                                      !.all_images = all_images]
    IN  IF total <= target_count THEN [dataset |-> d, reduction |-> called]
        ELSE
        LET k == target_count
            n == total
            segments == IF k <= 0 \/ method = "uniform" THEN <<>>
                        ELSE StratifiedSegments(n, k)
            indices_list ==
                IF k <= 0 THEN <<>>
                ELSE IF method = "uniform" THEN UniformIndices(n, k)
                ELSE [i \in 1..k |-> segments[i].start + rnd[i]]
            indices == Range(indices_list)
            kept_files ==
                SelectSeq(all_images,
                          LAMBDA f : IndexOf(all_images, f) \in indices)
            excluded_files ==
                SelectSeq(all_images,
                          LAMBDA f : IndexOf(all_images, f) \notin indices)
            excluded == Range(excluded_files)
            txt == {Stem(f) : f \in excluded} \cap d.labels
        IN  [dataset |->
                 CASE action = "move" ->
                          Dataset(d.images \ excluded, d.labels \ txt,
                                  d.skipped_images \cup excluded,
                                  d.skipped_labels \cup txt)
                   [] action = "delete" ->
                          Dataset(d.images \ excluded, d.labels \ txt,
                                  d.skipped_images, d.skipped_labels)
                   [] OTHER -> d,
             reduction |->
                 [called EXCEPT !.segments = segments,
                                !.indices_list = indices_list,
                                !.kept_files = kept_files,
                                !.excluded_files = excluded_files]]

\* ------------------------------------------------------------------ inputs

\* A box as the mouse handlers compute it (center form, clamped corners).
Box(cx, cy, w, h) == [cx |-> cx, cy |-> cy, w |-> w, h |-> h]

\* The box a user draws: it touches the left border of the image and, like any
\* quotient of pixel coordinates, is off the 6-decimal grid.
DrawBoxes == {Box(1234564, 5000000, 2469128, 2000000)}

\* The label files the workspace may hold when it is opened: none, or one
\* written by another tool, with a line of fewer than five fields (dropped by
\* load_image, counted by the index build) before a well-formed line.
InitialLabels ==
    {NoFile,
     File(<<Line("short", 0, 0, 0, 0, 0),
            Line("full", 1, 5000000, 5000000, 2000000, 2000000)>>)}

\* The centers and sizes of the label lines the clamping is run on: left of,
\* on and right of the image borders, off the grid, negative, tiny, oversized.
ClampCenters == {-1000000, 0, 1234564, 5000000, 9000000, ONE, 12000000}

ClampSizes == {-3000000, 4000, 2000000, 2469128, 25000000}

ClampLines ==
    {Line("full", 0, cx, 5000000, w, 2000000) : cx \in ClampCenters, w \in ClampSizes}
        \cup {Line("full", 0, 5000000, cy, 2000000, h) :
                  cy \in {0, 1234564, ONE}, h \in {-3000000, 2469128, 25000000}}
        \cup {Line("short", 0, 0, 0, 0, 0)}

ClampFiles == {NoFile} \cup {File(<<l>>) : l \in ClampLines}

\* What model.predict may return for an image.
Detections ==
    {<<>>,
     <<Det(0, 5000000, 5000000, 2000000, 2000000, TRUE)>>,
     <<Det(1, 5000000, 5000000, 2000000, 2000000, TRUE),
       Det(1, 5300000, 5000000, 2000000, 2000000, TRUE),
       Det(0, 3000000, 3000000, 300000, 300000, TRUE),
       Det(0, 3150000, 3000000, 300000, 300000, TRUE),
       Det(0, 8000000, 8000000, 1000000, 1000000, FALSE)>>}

\* What the class selection dialog may return.
AllowedChoices == {{0}, {0, 1}}

DiskModes == {"ok", "readonly", "full"}

\* No Undo is being followed.
NoHistory == [phase |-> "none", annotations |-> <<>>, label_files |-> <<>>,
              path |-> NoPath]

\* ------------------------------------------------------------------ the editor

\* AnnotatorApp.__init__ on a disk that holds NImages images.
Constructed(labels) ==
    [image_files |-> Images, label_files |-> labels, disk_mode |-> "ok",
     image_paths |-> <<>>, filtered_image_paths |-> <<>>, current_index |-> 0,
     current_image |-> FALSE, current_file_path |-> NoPath, annotations |-> <<>>,
     image_to_classes_cache |-> <<>>, image_id_map |-> <<>>,
     selected_class_id |-> 0, filter_mode |-> ModeAll, custom_query_paths |-> {},
     last_query_conditions |-> <<>>,
     deleted_files_stack |-> <<>>, annotation_undo_stack |-> <<>>,
     annotation_redo_stack |-> <<>>, exc |-> "", shown |-> "", stale |-> FALSE]

\* The state of r laid out in the variables.
Holds(r) ==
    /\ image_files = r.image_files
    /\ label_files = r.label_files
    /\ disk_mode = r.disk_mode
    /\ image_paths = r.image_paths
    /\ filtered_image_paths = r.filtered_image_paths
    /\ current_index = r.current_index
    /\ current_image = r.current_image
    /\ current_file_path = r.current_file_path
    /\ annotations = r.annotations
    /\ image_to_classes_cache = r.image_to_classes_cache
    /\ image_id_map = r.image_id_map
    /\ selected_class_id = r.selected_class_id
    /\ filter_mode = r.filter_mode
    /\ custom_query_paths = r.custom_query_paths
    /\ last_query_conditions = r.last_query_conditions
    /\ deleted_files_stack = r.deleted_files_stack
    /\ annotation_undo_stack = r.annotation_undo_stack
    /\ annotation_redo_stack = r.annotation_redo_stack
    /\ raised = r.exc
    /\ shown = r.shown
    /\ stale_refresh = r.stale

\* The application is constructed and the workspace with label files `labels`
\* is loaded (load_workspace); the user has e edits, d deletions and j batch
\* jobs ahead.
Opened(labels, e, d, j) ==
    /\ Holds(load_images_from_dir(Constructed(labels)))
    /\ before_undo = NoHistory
    /\ job = NoJob
    /\ earlier_job = NoJob
    /\ dataset = Dataset({}, {}, {}, {})
    /\ reduction = NoReduction
    /\ edits_left = e
    /\ deletes_left = d
    /\ jobs_left = j

Init == \E labels \in [Images -> InitialLabels] : Opened(labels, MaxEdits, MaxDeletes, 0)

\* A handler other than Undo and Redo ran.
Other(r) == Commit(r) /\ before_undo' = NoHistory /\ UNCHANGED <<job, jobs_left, earlier_job, reduce_vars>>

\* A handler that neither edits nor deletes ran.
Plain(r) == Other(r) /\ UNCHANGED <<edits_left, deletes_left>>

\* An edit ran.
Edit(r) == Other(r) /\ edits_left' = edits_left - 1 /\ UNCHANGED deletes_left

\* A deletion of images ran.
Deletion(r) == Other(r) /\ deletes_left' = deletes_left - 1 /\ UNCHANGED edits_left

MouseUpCreate ==
    /\ current_image
    /\ Len(annotations) < MaxAnns
    /\ edits_left > 0
    /\ \E box \in DrawBoxes : Edit(on_mouse_up(St, box))

RightClick ==
    /\ current_image
    /\ edits_left > 0
    /\ \E hit_index \in 1..Len(annotations) : Edit(on_right_click(St, hit_index))

ClearAll ==
    /\ current_image
    /\ annotations # <<>>
    /\ edits_left > 0
    /\ Edit(clear_all_annotations_quick(St))

SetClass == \E idx \in Classes : Plain(set_class_by_index(St, idx))

SaveKey == Plain(save_key(St))

NextImage == Plain(next_image(St))

PrevImage == Plain(prev_image(St))

FileSelected ==
    \E sel \in 0..(Len(filtered_image_paths) - 1) : Plain(on_file_selected(St, sel))

GoToImage ==
    \E result \in 1..Len(image_paths), clear \in BOOLEAN :
        Plain(go_to_image_dialog(St, result, clear))

FilterChanged == \E val \in ComboValues : Plain(on_filter_changed(St, val))

DeleteCurrent ==
    /\ deletes_left > 0
    /\ current_image
    /\ filtered_image_paths # <<>>
    /\ Deletion(delete_current_image_quick(St))

DeleteSelected ==
    /\ deletes_left > 0
    /\ \E indices \in SUBSET (0..(Len(filtered_image_paths) - 1)) :
           indices # {} /\ Deletion(delete_selected_files(St, indices))

ClearSelected ==
    /\ edits_left > 0
    /\ \E indices \in SUBSET (0..(Len(filtered_image_paths) - 1)) :
           indices # {} /\ Edit(clear_selected_files_annotations(St, indices))

RefreshWorkspace == Plain(refresh_workspace(St))

\* The entry Ctrl+Z pops is applied to its image (and not dropped on the way to
\* the deletion stack).
UndoApplies ==
    /\ annotation_undo_stack # <<>>
    /\ \/ Last(annotation_undo_stack).path = current_file_path
       \/ Contains(filtered_image_paths, Last(annotation_undo_stack).path)

\* Ctrl+Z.  The history variable keeps what the Undo found.
Undo ==
    /\ Commit(undo_action(St))
    /\ before_undo' =
           [phase |-> IF UndoApplies /\ disk_mode = "ok" THEN "undone" ELSE "none",
            annotations |-> annotations, label_files |-> label_files,
            path |-> current_file_path]
    /\ UNCHANGED <<job, edits_left, deletes_left, jobs_left, earlier_job, reduce_vars>>

\* Ctrl+Y.
Redo ==
    /\ Commit(redo_action(St))
    /\ before_undo' = IF before_undo.phase = "undone" /\ disk_mode = "ok"
                      THEN [before_undo EXCEPT !.phase = "redone"]
                      ELSE NoHistory
    /\ UNCHANGED <<job, edits_left, deletes_left, jobs_left, earlier_job, reduce_vars>>

Next ==
    \/ MouseUpCreate
    \/ RightClick
    \/ ClearAll
    \/ SetClass
    \/ SaveKey
    \/ NextImage
    \/ PrevImage
    \/ FileSelected
    \/ GoToImage
    \/ FilterChanged
    \/ DeleteCurrent
    \/ DeleteSelected
    \/ ClearSelected
    \/ RefreshWorkspace
    \/ Undo
    \/ Redo

\* The editor on a working disk, no batch job.
Spec == Init /\ [][Next]_vars

\* ------------------------------------------------------------------ a failing disk

\* The variables of the application other than the disk mode and the dialogs.
app_vars ==
    <<image_files, label_files, image_paths, filtered_image_paths, current_index,
      current_image, current_file_path, annotations, image_to_classes_cache,
      image_id_map, selected_class_id, filter_mode, custom_query_paths,
      last_query_conditions, deleted_files_stack, annotation_undo_stack,
      annotation_redo_stack>>

\* The disk fills up, loses or regains write permission.
DiskChange ==
    /\ \E m \in DiskModes \ {disk_mode} : disk_mode' = m
    /\ raised' = ""
    /\ shown' = ""
    /\ stale_refresh' = FALSE
    /\ before_undo' = NoHistory
    /\ UNCHANGED <<app_vars, job, edits_left, deletes_left, jobs_left, earlier_job, reduce_vars>>

NextDisk ==
    \/ DiskChange
    \/ MouseUpCreate
    \/ SaveKey
    \/ NextImage
    \/ FileSelected
    \/ FilterChanged
    \/ DeleteCurrent
    \/ Undo
    \/ Redo

\* The editor on a disk that may refuse to be written.
SpecDisk == Init /\ [][NextDisk]_vars

\* ------------------------------------------------------------------ a long history

InitHistory ==
    \E labels \in [Images -> InitialLabels] : Opened(labels, MaxPushes, 0, 0)

\* A box is drawn on an image that has none.
DrawOnEmpty == annotations = <<>> /\ MouseUpCreate

NextHistory ==
    \/ DrawOnEmpty
    \/ ClearAll
    \/ Undo
    \/ Redo

\* One image is edited until the undo stack has met its bound.
SpecHistory == InitHistory /\ [][NextHistory]_vars

\* ------------------------------------------------------------------ load and save

InitClamp == \E labels \in [Images -> ClampFiles] : Opened(labels, 0, 0, 0)

NextClamp ==
    \/ NextImage
    \/ PrevImage
    \/ FileSelected
    \/ SaveKey

\* Label files of any content are loaded, saved and loaded again.
SpecClamp == InitClamp /\ [][NextClamp]_vars

\* ------------------------------------------------------------------ the batch job

InitBatch ==
    \E labels \in [Images -> InitialLabels] : Opened(labels, 0, MaxDeletes, MaxJobs)

\* The state of the editor but for its class index.
editor_vars ==
    <<image_files, disk_mode, image_paths, filtered_image_paths, current_index,
      current_image, current_file_path, annotations,
      image_id_map, selected_class_id, filter_mode, custom_query_paths,
      last_query_conditions, deleted_files_stack, annotation_undo_stack,
      annotation_redo_stack, raised, shown, stale_refresh, before_undo,
      edits_left, deletes_left>>

\* What a step of the worker thread, or a click in the progress dialog, leaves alone.
ui_vars == <<editor_vars, image_to_classes_cache>>

\* The worker enters the classes of the file it has written into the index.
WorkerIndexUpdated(cache, p, file) == CachePut(cache, p, ClassSet(file))

\* The class index after the worker has written the label file of image p:
\* the worker has no statement that touches self.image_to_classes_cache.
WorkerIndex(cache, p, file) == cache

\* auto_annotate_all up to thread.start(): the dialogs are answered and the
\* worker is started on a snapshot of the image list.  (No annotation is dirty
\* when a handler has returned on a working disk, so nothing is saved.)  The
\* handler has no test for a job that is alive: its closure, its dialog and its
\* thread live on next to the new ones.  The model follows two jobs at a time.
StartBatch ==
    /\ jobs_left > 0
    /\ job = NoJob \/ earlier_job = NoJob
    /\ \E mode \in Modes, allowed_classes \in AllowedChoices :
           job' = StartedJob(mode, allowed_classes, image_paths)
    /\ earlier_job' = IF job = NoJob THEN earlier_job ELSE job
    /\ jobs_left' = jobs_left - 1
    /\ UNCHANGED <<ui_vars, label_files, reduce_vars>>

\* The worker thread at the top of its loop.
WorkerLoop ==
    /\ job.thread = "loop"
    /\ IF LeavesLoop(job)
       THEN job' = IF job.dialog THEN WorkerDone(job) ELSE NoJob
       ELSE \E dets \in Detections, raises \in BOOLEAN :
                job' = WorkerReads(job, label_files, image_files, dets, raises)
    /\ UNCHANGED <<ui_vars, label_files, jobs_left, earlier_job, reduce_vars>>

\* The worker thread writes the label file of its image.
WorkerWrite ==
    /\ job.thread = "write"
    /\ LET p == job.image_paths[job.i + 1]
           w == WorkerWrites(label_files[p], job.mode, job.allowed_classes,
                             job.new_lines)
       IN  /\ label_files' = [label_files EXCEPT ![p] = w.file]
           /\ image_to_classes_cache'
                  = WorkerIndex(image_to_classes_cache, p, w.file)
           /\ job' = WorkerPublishes(job, w)
    /\ UNCHANGED <<editor_vars, jobs_left, earlier_job, reduce_vars>>

\* The Cancel button of the progress dialog.
CancelBatch ==
    /\ job.dialog
    /\ ~job.cancelled
    /\ job' = [job EXCEPT !.cancelled = TRUE]
    /\ UNCHANGED <<ui_vars, label_files, jobs_left, earlier_job, reduce_vars>>

\* poll_progress once the job is done or cancelled.  thread.join(timeout=2)
\* returns whether or not the worker has finished its image.
PollProgress ==
    /\ job.dialog
    /\ job.progress.done \/ job.cancelled
    /\ Commit(poll_progress(St))
    /\ job' = IF job.thread = "none" THEN NoJob ELSE [job EXCEPT !.dialog = FALSE]
    /\ before_undo' = NoHistory
    /\ UNCHANGED <<edits_left, deletes_left, jobs_left, earlier_job, reduce_vars>>

\* The same four steps for the job that was started earlier.
EarlierWorkerLoop ==
    /\ earlier_job.thread = "loop"
    /\ IF LeavesLoop(earlier_job)
       THEN earlier_job' = IF earlier_job.dialog THEN WorkerDone(earlier_job) ELSE NoJob
       ELSE \E dets \in Detections, raises \in BOOLEAN :
                earlier_job' = WorkerReads(earlier_job, label_files, image_files,
                                           dets, raises)
    /\ UNCHANGED <<ui_vars, label_files, job, jobs_left, reduce_vars>>

EarlierWorkerWrite ==
    /\ earlier_job.thread = "write"
    /\ LET p == earlier_job.image_paths[earlier_job.i + 1]
           w == WorkerWrites(label_files[p], earlier_job.mode,
                             earlier_job.allowed_classes, earlier_job.new_lines)
       IN  /\ label_files' = [label_files EXCEPT ![p] = w.file]
           /\ image_to_classes_cache'
                  = WorkerIndex(image_to_classes_cache, p, w.file)
           /\ earlier_job' = WorkerPublishes(earlier_job, w)
    /\ UNCHANGED <<editor_vars, job, jobs_left, reduce_vars>>

EarlierCancelBatch ==
    /\ earlier_job.dialog
    /\ ~earlier_job.cancelled
    /\ earlier_job' = [earlier_job EXCEPT !.cancelled = TRUE]
    /\ UNCHANGED <<ui_vars, label_files, job, jobs_left, reduce_vars>>

EarlierPollProgress ==
    /\ earlier_job.dialog
    /\ earlier_job.progress.done \/ earlier_job.cancelled
    /\ Commit(poll_progress(St))
    /\ earlier_job' = IF earlier_job.thread = "none" THEN NoJob
                      ELSE [earlier_job EXCEPT !.dialog = FALSE]
    /\ before_undo' = NoHistory
    /\ UNCHANGED <<job, edits_left, deletes_left, jobs_left, reduce_vars>>

NextBatch ==
    \/ StartBatch
    \/ WorkerLoop
    \/ WorkerWrite
    \/ CancelBatch
    \/ PollProgress
    \/ NextImage
    \/ FilterChanged
    \/ DeleteCurrent

\* The editor while a batch job runs.
SpecBatch == InitBatch /\ [][NextBatch]_vars

\* ------------------------------------------------------------------ a batch job to its end

\* An image without annotations and an image with one box.
LiveLabels ==
    {NoFile, File(<<Line("full", 0, 5000000, 5000000, 2000000, 2000000)>>)}

InitLive == \E labels \in [Images -> LiveLabels] : Opened(labels, 0, 0, MaxJobs)

NextLive ==
    \/ StartBatch
    \/ WorkerLoop
    \/ WorkerWrite
    \/ CancelBatch
    \/ PollProgress
    \/ NextImage

\* What the finalising poll_progress does to the job.  PollProgress is this
\* step together with what the handler does to the editor, which never fails:
\* the two are enabled in the same states and are the same steps of the job.
PollFinalises ==
    /\ job.dialog
    /\ job.progress.done \/ job.cancelled
    /\ job' = IF job.thread = "none" THEN NoJob ELSE [job EXCEPT !.dialog = FALSE]

\* One batch job next to a user who moves through the images.  The worker
\* thread keeps running (model.predict and the file operations return or
\* raise), and poll_progress is called again every 100 ms (top.after) until it
\* finalises.
SpecLive ==
    /\ InitLive
    /\ [][NextLive]_vars
    /\ WF_vars(WorkerLoop)
    /\ WF_vars(WorkerWrite)
    /\ WF_job(PollFinalises)

\* ------------------------------------------------------------------ two batch jobs

\* Number of batch jobs of a run in which "All Images" is clicked again.
MaxStarts == 2

InitJobs ==
    \E labels \in [Images -> {NoFile}] : Opened(labels, 0, 0, MaxStarts)

NextJobs ==
    \/ StartBatch
    \/ WorkerLoop
    \/ WorkerWrite
    \/ CancelBatch
    \/ PollProgress
    \/ EarlierWorkerLoop
    \/ EarlierWorkerWrite
    \/ EarlierCancelBatch
    \/ EarlierPollProgress

\* The "All Images" button during and after a batch job.
SpecJobs == InitJobs /\ [][NextJobs]_vars

\* ------------------------------------------------------------------ the merge policies

\* The label files the merge policies are run on: none, an empty one, one of
\* another tool (a line of fewer than five fields, then a well-formed line),
\* one with a line of each class, one whose only line has three fields, one
\* whose last line lacks its newline character, one with a line of text.
MergeLabels ==
    {NoFile,
     File(<<>>),
     File(<<Line("short", 0, 0, 0, 0, 0),
            Line("full", 1, 5000000, 5000000, 2000000, 2000000)>>),
     File(<<Line("full", 0, 5000000, 5000000, 2000000, 2000000),
            Line("full", 1, 3000000, 3000000, 300000, 300000)>>),
     File(<<Line("short", 1, 0, 0, 0, 0)>>),
     File(<<Line("open", 1, 8000000, 8000000, 1000000, 1000000)>>),
     File(<<Line("junk", 0, 0, 0, 0, 0)>>)}

\* Every image of the workspace has the same label file; one job is run.
InitMerge ==
    \E f \in MergeLabels : Opened([p \in Images |-> f], 0, 0, 1)

NextMerge ==
    \/ StartBatch
    \/ WorkerLoop
    \/ WorkerWrite
    \/ PollProgress

\* A batch job on its own.
SpecMerge == InitMerge /\ [][NextMerge]_vars

\* ------------------------------------------------------------------ filters and queries

\* Label files by the classes and the number of their lines.
FilterLabels ==
    {NoFile,
     File(<<Line("full", 0, 3000000, 3000000, 2000000, 2000000)>>),
     File(<<Line("full", 0, 3000000, 3000000, 2000000, 2000000),
            Line("full", 0, 7000000, 7000000, 2000000, 2000000)>>),
     File(<<Line("full", 0, 3000000, 3000000, 2000000, 2000000),
            Line("full", 1, 7000000, 7000000, 2000000, 2000000)>>),
     File(<<Line("full", 1, 7000000, 7000000, 2000000, 2000000)>>),
     File(<<Line("short", 0, 0, 0, 0, 0)>>)}

\* The condition lists the user builds in the query dialog.  The first row
\* has logic "" when it was added to an empty list, and the logic of a later
\* row when the rows before it were removed.
Queries ==
    {<<>>,
     <<Cond("", 0, ">=", 1)>>,
     <<Cond("", 0, ">", 0), Cond("AND", 1, "=", 0)>>,
     <<Cond("", 0, ">", 0), Cond("OR", 1, ">", 0), Cond("AND", 0, "<", 2)>>,
     <<Cond("OR", 0, "=", 2)>>,
     <<Cond("AND", 0, "<", 1), Cond("OR", 1, "!=", 1)>>,
     <<Cond("", 1, "<=", 1), Cond("AND", 0, ">=", 2)>>}

InitFilter == \E labels \in [Images -> FilterLabels] : Opened(labels, 0, 0, 0)

ApplyQuery == \E conditions \in Queries : Plain(apply_filter(St, conditions))

NextFilter ==
    \/ FilterChanged
    \/ ApplyQuery
    \/ NextImage

\* The filter combo box and the query dialog on a workspace that is not edited.
SpecFilter == InitFilter /\ [][NextFilter]_vars

\* ------------------------------------------------------------------ deleting under a query

InitQuery ==
    \E labels \in [Images -> FilterLabels] : Opened(labels, 0, MaxDeletes, 0)

NextQuery ==
    \/ ApplyQuery
    \/ DeleteCurrent
    \/ NextImage
    \/ Undo

\* Images are deleted, and deletions undone, while a custom query is active.
SpecQuery == InitQuery /\ [][NextQuery]_vars

\* ------------------------------------------------------------------ the overlap filter

\* A tenth, in model units.
Tenth == ONE \div 10

\* A line of class 0 with its numbers in tenths.
TenthsLine(cx, cy, w, h) == Line("full", 0, cx * Tenth, cy * Tenth, w * Tenth, h * Tenth)

\* Label files by the position of their boxes: none, one box, a box twice,
\* two boxes that overlap by less and by more than the threshold, one box
\* inside the other, two boxes apart, and two boxes without area.
OverlapLabels ==
    {NoFile,
     File(<<TenthsLine(1, 1, 1, 1)>>),
     File(<<TenthsLine(1, 1, 1, 1), TenthsLine(1, 1, 1, 1)>>),
     File(<<TenthsLine(5, 5, 2, 2), TenthsLine(5, 5, 2, 2)>>),
     File(<<TenthsLine(3, 2, 2, 4), TenthsLine(4, 3, 3, 1)>>),
     File(<<TenthsLine(1, 5, 1, 1), TenthsLine(1, 5, 1, 3)>>),
     File(<<TenthsLine(5, 5, 4, 4), TenthsLine(5, 5, 2, 2)>>),
     File(<<TenthsLine(2, 2, 2, 2), TenthsLine(7, 7, 2, 2)>>),
     File(<<TenthsLine(5, 5, 0, 2), TenthsLine(5, 5, 0, 2)>>),
     File(<<Line("short", 0, 0, 0, 0, 0), TenthsLine(7, 3, 6, 6), TenthsLine(6, 3, 6, 5)>>)}

InitOverlap == \E labels \in [Images -> OverlapLabels] : Opened(labels, 0, 0, 0)

\* The user picks "Overlapping" in the filter combo box.
OverlapFilter == Plain(on_filter_changed(St, Mode("Overlapping", -1)))

NextOverlap ==
    \/ OverlapFilter
    \/ NextImage

\* The filter "Overlapping" on a workspace that is not edited.
SpecOverlap == InitOverlap /\ [][NextOverlap]_vars

\* ------------------------------------------------------------------ reducing a dataset

\* The most images a workspace holds before it is reduced.
MaxFiles == 5

\* Workspaces of up to MaxFiles images, some with a label file, nothing
\* skipped yet.
Datasets ==
    LET Names == {Name(stem, ext) : stem \in 1..3, ext \in {0, 1}}
    IN  {Dataset(images, labels, {}, {}) :
            images \in {S \in SUBSET Names : Cardinality(S) <= MaxFiles},
            labels \in SUBSET (1..3)}

InitReduce ==
    /\ Holds(Constructed([p \in Images |-> NoFile]))
    /\ before_undo = NoHistory
    /\ job = NoJob
    /\ earlier_job = NoJob
    /\ edits_left = 0
    /\ deletes_left = 0
    /\ jobs_left = 0
    /\ dataset \in Datasets
    /\ reduction = NoReduction

\* reduce_dataset is called; the random generator returns what it may.
ReduceDataset ==
    \E target_count \in 0..MaxFiles, method \in {"uniform", "stratified"},
       action \in {"move", "delete"} :
        LET n == Cardinality(dataset.images)
            k == IF 0 < target_count /\ target_count < n /\ method = "stratified"
                 THEN target_count ELSE 0
        IN  \E rnd \in [1..k -> 0..((n - 1) \div Max2(k, 1))] :
                /\ \A i \in 1..k : rnd[i] < StratifiedSegments(n, k)[i].seg_size
                /\ LET r == reduce_dataset(dataset, target_count, method, action, rnd)
                   IN  dataset' = r.dataset /\ reduction' = r.reduction
                /\ UNCHANGED <<ui_vars, label_files, job, jobs_left, earlier_job>>

\* A workspace is reduced, again and again.
SpecReduce == InitReduce /\ [][ReduceDataset]_vars

\* ------------------------------------------------------------------ undo and redo, checked

\* What load_image shows for image p of the label files `files`.
Stored(files, p) == Sanitize(ParseLabel(files[p]))

\* C1: an Undo that is applied, followed by a Redo, leaves every image with the
\* annotation list it had before the Undo, also when the entry undone belongs
\* to another image than the open one.
C1_UndoRedoRestores ==
    before_undo.phase = "redone" =>
        /\ \A p \in image_files :
               Stored(label_files, p) = Stored(before_undo.label_files, p)
        /\ current_file_path = before_undo.path => annotations = before_undo.annotations

\* C2: Undo leaves the deletion stack alone while the annotation-undo stack
\* holds an entry.
C2_DeletionOnlyWhenUndoEmpty ==
    [][(Undo /\ annotation_undo_stack # <<>>)
           => deleted_files_stack' = deleted_files_stack]_vars

\* The newest max_undo_size entries of a stack.
Newest(stack) ==
    IF Len(stack) > max_undo_size
    THEN SubSeq(stack, Len(stack) - max_undo_size + 1, Len(stack))
    ELSE stack

\* C3: the annotation-undo stack never holds more than max_undo_size entries,
\* and an edit leaves the entries it held, without the oldest when it was full,
\* followed by the state the edit found.
C3_UndoStackBounded ==
    [][/\ Len(annotation_undo_stack') <= max_undo_size
       /\ (DrawOnEmpty \/ ClearAll) =>
              annotation_undo_stack' =
                  Newest(Append(annotation_undo_stack,
                                Entry(current_file_path, annotations)))]_vars

\* 51 edits were made on an image that had no annotations, the stack is full
\* and its oldest entry is the state the second edit found (a drawn box).
C3_Witness ==
    /\ edits_left = MaxPushes - (max_undo_size + 1)
    /\ Len(annotation_undo_stack) = max_undo_size
    /\ annotation_undo_stack[1].anns # <<>>
    /\ annotation_undo_stack[1].anns[1].cid = 0

\* C4: every edit leaves the redo stack empty, and a Redo on an empty redo
\* stack changes neither the annotations, nor the label files, nor the stacks.
C4_PushClearsRedo ==
    [][/\ (DrawOnEmpty \/ ClearAll) => annotation_redo_stack' = <<>>
       /\ (Redo /\ annotation_redo_stack = <<>>) =>
              UNCHANGED <<annotations, label_files, current_file_path,
                          annotation_undo_stack, annotation_redo_stack>>]_vars

\* Two edits were made and one entry is left on the undo stack and none on the
\* redo stack: the second edit followed an Undo and cleared its redo entry.
C4_Witness ==
    /\ edits_left = MaxPushes - 2
    /\ Len(annotation_undo_stack) = 1
    /\ annotation_redo_stack = <<>>

\* ------------------------------------------------------------------ failures, checked

\* Undo goes on to the deletion stack.
FallsBack ==
    \/ annotation_undo_stack = <<>>
    \/ /\ Last(annotation_undo_stack).path # current_file_path
       /\ ~Contains(filtered_image_paths, Last(annotation_undo_stack).path)

\* Restoring the newest deletion writes a file, which the disk refuses.
RestoreFails ==
    /\ disk_mode # "ok"
    /\ \/ Last(deleted_files_stack).img_data
       \/ Last(deleted_files_stack).lbl_data.exists
              /\ Last(deleted_files_stack).lbl_data.lines # <<>>

\* C5: an Undo that falls back to a non-empty deletion stack leaves it exactly
\* one entry shorter, and shows the error when the restore fails.
C5_FailedRestoreConsumed ==
    [][(Undo /\ FallsBack /\ deleted_files_stack # <<>>) =>
           /\ deleted_files_stack' = Front(deleted_files_stack)
           /\ RestoreFails => shown' = "Undo Error"]_vars

\* A restore has failed and its entry is gone.
C5_Witness ==
    /\ shown = "Undo Error"
    /\ deleted_files_stack = <<>>
    /\ deletes_left = 0

\* Save cannot write the label file of the open image.
WriteFails ==
    /\ current_image
    /\ current_file_path # NoPath
    /\ \/ disk_mode = "readonly"
       \/ disk_mode = "full" /\ annotations # <<>>

\* A handler that saves the open image: Save itself, or a navigation that has
\* somewhere to go and flushes first.
SavesImage ==
    \/ SaveKey
    \/ FilterChanged
    \/ filtered_image_paths # <<>> /\ (NextImage \/ FileSelected)

\* C10: when the label file cannot be written, Save and the flush of a
\* navigation let the error escape and leave the open image and its in-memory
\* annotation list as they were.
C10_FailedSaveSurfaces ==
    [][(WriteFails /\ SavesImage) =>
           /\ raised' = "OSError"
           /\ annotations' = annotations
           /\ current_file_path' = current_file_path
           /\ current_image']_vars

\* A write has failed while an image with annotations was open, and the image
\* and its annotations are still there.
C10_Witness ==
    /\ raised = "OSError"
    /\ disk_mode # "ok"
    /\ current_image
    /\ annotations # <<>>
    /\ edits_left = MaxEdits

\* ------------------------------------------------------------------ flush, checked

\* The open image p is left for another image, and p is still on the disk.
LeavesImage ==
    /\ current_image
    /\ current_file_path # NoPath
    /\ current_file_path' # current_file_path
    /\ current_file_path \in image_files'

\* Two annotation lists are equal up to the rounding of the label format: the
\* same classes, and every value within two steps of the 6-decimal grid.
Near(a, b) ==
    /\ Len(a) = Len(b)
    /\ \A i \in 1..Len(a) :
           /\ a[i].cid = b[i].cid
           /\ Abs(a[i].cx - b[i].cx) <= 2 * GRID
           /\ Abs(a[i].cy - b[i].cy) <= 2 * GRID
           /\ Abs(a[i].w - b[i].w) <= 2 * GRID
           /\ Abs(a[i].h - b[i].h) <= 2 * GRID

C7_RefreshReadsFreshIndex == ~stale_refresh

\* ------------------------------------------------------------------ clamping, checked

\* The data-model invariant of one annotation or label line.
WithinImage(a) ==
    /\ 2 * a.cx - a.w >= 0
    /\ 2 * a.cx + a.w <= 2 * ONE
    /\ 2 * a.cy - a.h >= 0
    /\ 2 * a.cy + a.h <= 2 * ONE
    /\ a.w >= MIN_DIM
    /\ a.h >= MIN_DIM

\* C8: every annotation of a loaded image, and every line Save writes for it,
\* satisfies the data-model invariant.
C8_LoadedAndSavedWithinImage ==
    current_image =>
        /\ \A i \in 1..Len(annotations) : WithinImage(annotations[i])
        /\ \A i \in 1..Len(annotations) : WithinImage(SaveLine(annotations[i]))

\* The open image is loaded again (a click on its row): load_image saves the
\* loaded list and loads the file it has written.
ReloadsImage ==
    /\ current_image
    /\ current_file_path # NoPath
    /\ FileSelected
    /\ current_image'
    /\ current_file_path' = current_file_path

\* C9: saving a loaded list and loading it again yields the same list, and the
\* second load finds nothing to correct.
C9_SaveAfterLoadIdempotent ==
    [][ReloadsImage =>
           /\ annotations' = annotations
           /\ ~NeedsResave(ParseLabel(WriteLines(annotations)))]_vars

\* ------------------------------------------------------------------ the batch job, checked

\* C11: at most one batch worker thread runs at any time; "All Images" starts
\* no worker while the worker of an earlier job has not finished.
C11_OneWorkerAtATime ==
    ~(job.thread # "none" /\ earlier_job.thread # "none")

\* C12: once poll_progress has finalised the job (its dialog is destroyed, the
\* index is rebuilt, the open image is loaded again) the worker of the job
\* writes no label file.
C12_NoWriteAfterFinalize ==
    [][(WorkerWrite /\ ~job.dialog) => label_files' = label_files]_vars

C14_FailingImageIsSkipped ==
    [][/\ (job.errors \subseteq job'.errors /\ job'.errors # job.errors) =>
              /\ label_files' = label_files
              /\ job'.thread = "loop"
              /\ job'.i = job.i + 1
       /\ (job.thread = "loop" /\ job'.thread = "none") =>
              job.i >= Len(job.image_paths) \/ job.cancelled]_vars

\* The first image failed and the second was processed and written.
C14_Witness ==
    /\ job.errors = {1}
    /\ 2 \in job.predicted
    /\ job.progress.i = 2
    /\ job.progress.cnt > 0

\* ------------------------------------------------------------------ the merge policies, checked

\* The image the worker is at.
AtImage == job.image_paths[job.i + 1]

\* The annotations of a sequence of lines or detections.
AsAnns(seq) ==
    [k \in 1..Len(seq) |-> Ann(seq[k].cid, seq[k].cx, seq[k].cy, seq[k].w, seq[k].h)]

\* The worker is at the top of its loop with an image that has annotations,
\* in the mode "unannotated_only", and takes its step.
SkipsAtImage ==
    /\ WorkerLoop
    /\ job.mode = "unannotated_only"
    /\ job.i < Len(job.image_paths)
    /\ ~job.cancelled
    /\ ParseLabel(label_files[AtImage]) # <<>>

\* C15: in the mode "unannotated_only" an image that has an annotation is not
\* passed to model.predict, its label file stays as it is and skipped_images
\* grows by one.
C15_AnnotatedImageSkipped ==
    [][SkipsAtImage =>
           /\ label_files' = label_files
           /\ job'.predicted = job.predicted
           /\ job'.errors = job.errors
           /\ job'.thread = "loop"
           /\ job'.i = job.i + 1
           /\ job'.progress.skipped_images = job.progress.skipped_images + 1]_vars

\* Both images had annotations and were passed over.
C15_Witness ==
    /\ job.mode = "unannotated_only"
    /\ job.progress.i = 2
    /\ job.progress.skipped_images = 2
    /\ job.predicted = {}
    /\ \A p \in Images : ParseLabel(label_files[p]) # <<>>

\* The detections that pass the class and the confidence filter.
Passed ==
    SelectSeq(job.dets, LAMBDA d : d.cid \in job.allowed_classes /\ d.confident)

\* Duplicate-or-overlapping, of two boxes: the same class and either all four
\* coordinates within 0.02 or an IoU above the threshold.
SameObject(a, b) ==
    /\ a.cid = b.cid
    /\ \/ /\ Abs(a.cx - b.cx) < coord_tolerance
          /\ Abs(a.cy - b.cy) < coord_tolerance
          /\ Abs(a.w - b.w) < coord_tolerance
          /\ Abs(a.h - b.h) < coord_tolerance
       \/ boxes_overlap(a, b, iou_threshold)

\* Which of the detections `passed` are accepted next to the annotations
\* `existing`: those that are the same object as no existing annotation and as
\* no detection accepted before them.
Acceptance(passed, existing) ==
    CHOOSE acc \in [1..Len(passed) -> BOOLEAN] :
        \A k \in 1..Len(passed) :
            acc[k] <=> /\ \A i \in 1..Len(existing) : ~SameObject(passed[k], existing[i])
                       /\ \A m \in 1..(k - 1) : acc[m] => ~SameObject(passed[k], passed[m])

\* The worker has collected the detections of an image in the mode "add_missing".
Collecting == job.thread = "write" /\ job.mode = "add_missing"

\* C16: in the mode "add_missing" the lines collected for an image are the
\* detections that passed the filters and are duplicate-or-overlapping with no
\* existing annotation and no detection accepted earlier, in order;
\* skipped_dupes has grown by the number of the others, and the write adds the
\* number of the accepted ones to the count of added annotations.
C16_AcceptedIffNoDuplicate ==
    /\ [](Collecting =>
             LET acc == Acceptance(Passed, job.existing_anns)
                 accepted == {k \in 1..Len(Passed) : acc[k]}
                 rejected == {k \in 1..Len(Passed) : ~acc[k]}
             IN  /\ AsAnns(job.new_lines)
                        = AsAnns(SelectSeq(Passed,
                                           LAMBDA d : \E k \in accepted : Passed[k] = d))
                 /\ Len(job.new_lines) = Cardinality(accepted)
                 /\ job.skipped_dupes
                        = job.progress.skipped_dupes + Cardinality(rejected))
    /\ [][(Collecting /\ WorkerWrite) =>
               job'.progress.cnt = job.progress.cnt + Len(job.new_lines)]_vars

\* Four detections pass the filters on an image without annotations: the
\* second overlaps the first, the fourth has the coordinates of the third.
C16_Witness ==
    /\ Collecting
    /\ job.existing_anns = <<>>
    /\ Len(Passed) = 4
    /\ Len(job.new_lines) = 2
    /\ job.skipped_dupes = 2

\* C17: a detection whose class no existing annotation has is no duplicate of
\* them, whatever the coordinates; in the mode "add_missing" it is accepted
\* unless it matches a detection of its own class accepted before it.
C17_OtherClassNeverMatches ==
    Collecting =>
        \A k \in 1..Len(Passed) :
            (\A i \in 1..Len(job.existing_anns) :
                 job.existing_anns[i].cid # Passed[k].cid) =>
                /\ ~is_duplicate_or_overlapping(Passed[k], job.existing_anns)
                /\ (\A m \in 1..(k - 1) : Passed[m].cid # Passed[k].cid) =>
                       \E n \in 1..Len(job.new_lines) :
                           AsAnns(job.new_lines)[n] = AsAnns(Passed)[k]

\* A detection of class 0 at the coordinates of an annotation of class 1 has
\* been accepted.
C17_Witness ==
    /\ Collecting
    /\ \E i \in 1..Len(job.existing_anns), n \in 1..Len(job.new_lines) :
           /\ job.existing_anns[i].cid = 1
           /\ job.new_lines[n].cid = 0
           /\ job.new_lines[n].cx = job.existing_anns[i].cx
           /\ job.new_lines[n].cy = job.existing_anns[i].cy
           /\ job.new_lines[n].w = job.existing_anns[i].w
           /\ job.new_lines[n].h = job.existing_anns[i].h

\* C18: in the mode "add_missing" the annotations of the label file after the
\* write are those before it followed by the accepted detections.
C18_AddMissingExtends ==
    [][(Collecting /\ WorkerWrite) =>
           ParseLabel(label_files'[AtImage])
               = ParseLabel(label_files[AtImage]) \o AsAnns(job.new_lines)]_vars

\* The worker writes an image in the mode "overwrite".
Overwrites == job.thread = "write" /\ job.mode = "overwrite" /\ WorkerWrite

\* The lines of a file, each with its newline character.
OldLines(f) == [k \in 1..Len(f.lines) |-> Terminated(f.lines[k])]

\* C19 (as stated): in the mode "overwrite" the label file holds after the
\* write the lines it held whose class is not selected, in their order, then
\* the accepted detections.
C19_OverwriteKeepsOtherLines ==
    [][Overwrites =>
           label_files'[AtImage].lines
               = SelectSeq(OldLines(label_files[AtImage]),
                           LAMBDA l : l.kind = "junk" \/ l.cid \notin job.allowed_classes)
                     \o job.new_lines]_vars

\* C19 (as amended): in the mode "overwrite" the label file holds after the
\* write the lines of five fields or more it held whose class is not selected,
\* in their order, then the accepted detections; a line of fewer than five
\* fields is dropped whatever its class.
C19_OverwriteKeepsOtherAnnotations ==
    [][Overwrites =>
           /\ label_files'[AtImage].lines
                  = SelectSeq(OldLines(label_files[AtImage]),
                              LAMBDA l : /\ l.kind # "short"
                                         /\ l.kind = "junk" \/ l.cid \notin job.allowed_classes)
                        \o job.new_lines
           /\ ParseLabel(label_files'[AtImage])
                  = SelectSeq(ParseLabel(label_files[AtImage]),
                              LAMBDA a : a.cid \notin job.allowed_classes)
                        \o AsAnns(job.new_lines)]_vars

\* A file with a line of class 0 and a line of class 1 went through the mode
\* "overwrite" with class 0 selected and no detection: the line of class 1 is
\* what it holds.
C19_Witness ==
    /\ job.mode = "overwrite"
    /\ job.allowed_classes = {0}
    /\ job.progress.i = 1
    /\ job.progress.cnt = 0
    /\ job.predicted = {1}
    /\ label_files[1] = File(<<Line("full", 1, 3000000, 3000000, 300000, 300000)>>)

\* C20: in the mode "overwrite" an image whose preserved lines and accepted
\* detections are none has an empty label file after the write.
C20_EmptyMergeWritesEmptyFile ==
    [][(/\ Overwrites
        /\ job.new_lines = <<>>
        /\ \A k \in 1..Len(label_files[AtImage].lines) :
               LET l == label_files[AtImage].lines[k]
               IN  l.kind = "short" \/ (Parses(l) /\ l.cid \in job.allowed_classes))
           => label_files'[AtImage] = File(<<>>)]_vars

\* ------------------------------------------------------------------ the worker and the editor, checked

\* A step of the worker thread.
WorkerStep == WorkerLoop \/ WorkerWrite

\* C21: progress['i'] never decreases under the worker and never exceeds the
\* number of images of the job; it grows by one with every image whose
\* iteration has ended (written, skipped, failed) and is the number of images
\* of the job when the job is done without a cancel.
C21_ProgressCountsImages ==
    /\ [](/\ job.progress.i <= Len(job.image_paths)
          /\ (job.progress.done /\ ~job.cancelled) =>
                 job.progress.i = Len(job.image_paths))
    /\ [][WorkerStep =>
              \/ job' = NoJob
              \/ /\ job'.progress.i >= job.progress.i
                 /\ job'.i = job.i + 1 =>
                        /\ job'.progress.i = job.progress.i + 1
                        /\ job'.progress.i = job'.i
                 /\ job'.i = job.i => job'.progress.i = job.progress.i]_vars

\* A job is done without a cancel: its first image failed, its second image
\* was written.
C21_Witness ==
    /\ job.progress.done
    /\ ~job.cancelled
    /\ job.progress.i = 2
    /\ job.errors = {1}
    /\ job.progress.cnt > 0

\* C22: a step of the worker leaves the annotations in memory, the undo and
\* the redo stack, the open path and index, the class index and the filtered
\* list as they are; it changes label files and its own job.
C22_WorkerLeavesEditorAlone ==
    [][WorkerStep =>
           /\ annotations' = annotations
           /\ annotation_undo_stack' = annotation_undo_stack
           /\ annotation_redo_stack' = annotation_redo_stack
           /\ deleted_files_stack' = deleted_files_stack
           /\ current_file_path' = current_file_path
           /\ current_index' = current_index
           /\ current_image' = current_image
           /\ image_to_classes_cache' = image_to_classes_cache
           /\ filtered_image_paths' = filtered_image_paths
           /\ image_paths' = image_paths
           /\ filter_mode' = filter_mode]_vars

\* The worker has written a label file with a class the index does not list
\* for the image.
C22_Witness ==
    /\ job.progress.cnt > 0
    /\ \E p \in Range(image_paths) :
           /\ p \in job.predicted
           /\ ClassSet(label_files[p]) # CacheGet(image_to_classes_cache, p)

\* ------------------------------------------------------------------ filters and queries, checked

\* The user picks `val` in the filter combo box and the handler returns.
Picks(val) == Plain(on_filter_changed(St, val)) /\ raised' = ""

\* Image p is in the list the filter shows.
Shown(p) == Contains(filtered_image_paths, p)

\* C23: after "Only: X" is picked an image is shown if and only if its class
\* set is {X}: not with X and another class, and not without annotations.
C23_OnlyKeepsExactClass ==
    [][\A c \in Classes :
           Picks(Mode("Only", c)) =>
               \A p \in Range(image_paths') :
                   Shown(p)' <=> ClassSet(label_files'[p]) = {c}]_vars

\* "Only: 0" shows the image with class 0 alone and hides the image with the
\* classes 0 and 1.
C23_Witness ==
    /\ filter_mode = Mode("Only", 0)
    /\ ClassSet(label_files[1]) = {0, 1}
    /\ ClassSet(label_files[2]) = {0}
    /\ filtered_image_paths = <<2>>

\* C24: after "Missing: X" is picked an image is shown if and only if its
\* class set is not empty and does not hold X; an image without annotations
\* is not shown.
C24_MissingKeepsAnnotatedOnly ==
    [][\A c \in Classes :
           Picks(Mode("Missing", c)) =>
               \A p \in Range(image_paths') :
                   Shown(p)' <=> /\ ClassSet(label_files'[p]) # {}
                                 /\ c \notin ClassSet(label_files'[p])]_vars

\* The comparison of a condition.
Compares(op, actual, target) ==
    CASE op = "=" -> actual = target
      [] op = "!=" -> actual # target
      [] op = "<" -> actual < target
      [] op = ">" -> actual > target
      [] op = "<=" -> actual <= target
      [] op = ">=" -> actual >= target

\* The conditions folded from the left over their truth values: the first
\* value as it is, every later one joined by the logic of its condition.
RECURSIVE Fold(_, _)
Fold(conds, value) ==
    LET n == Len(conds)
    IN  IF n = 1 THEN value[1]
        ELSE IF conds[n].logic = "AND"
             THEN Fold(Front(conds), Front(value)) /\ value[n]
             ELSE Fold(Front(conds), Front(value)) \/ value[n]

\* The number of annotations of class c the parsers read from label file f.
AnnotationCount(f, c) ==
    Cardinality({i \in 1..Len(ParseLabel(f)) : ParseLabel(f)[i].cid = c})

\* The number of lines of label file f that begin with class id c.
LineCount(f, c) ==
    IF f.exists
    THEN Cardinality({i \in 1..Len(f.lines) :
                         f.lines[i].kind # "junk" /\ f.lines[i].cid = c})
    ELSE 0

\* The images a query matches when Count is what its conditions count.
Matching(conds, Count(_, _)) ==
    {p \in Range(image_paths) :
        Fold(conds, [i \in 1..Len(conds) |->
                        Compares(conds[i].op, Count(label_files[p], conds[i].cls),
                                 conds[i].count)])}

\* Applying a query with conditions shows the images of Matching, or tells
\* that there are none.
QueryShows(Count(_, _)) ==
    \A conds \in Queries \ {<<>>} :
        Plain(apply_filter(St, conds)) =>
            IF Matching(conds, Count) = {}
            THEN shown' = "No Matches" /\ filter_mode' = filter_mode
            ELSE /\ filter_mode' = ModeQuery
                 /\ custom_query_paths' = Matching(conds, Count)
                 /\ Range(filtered_image_paths') = Matching(conds, Count)

\* C25 as stated: the conditions of a query are folded from the left without
\* precedence, the logic of the first condition is ignored, and a condition
\* compares the number of annotations of its class with its count.
C25_QueryCountsAnnotations == [][QueryShows(AnnotationCount)]_vars

\* C25, amended: the same fold, where a condition compares the number of
\* label lines that begin with its class id with its count.
C25_QueryFoldsLeftToRight == [][QueryShows(LineCount)]_vars

\* A query of three conditions is active, and an image with two lines of
\* class 0, which "0 > 0 OR 1 > 0 AND 0 < 2" read with precedence would
\* match, is hidden.
C25_Witness ==
    /\ filter_mode = ModeQuery
    /\ Len(last_query_conditions) = 3
    /\ \E p \in Range(image_paths) :
           /\ LineCount(label_files[p], 0) = 2
           /\ p \notin custom_query_paths
           /\ ~Shown(p)

\* C26: the query without conditions matches no image, and applying it tells
\* so and changes neither the filter nor the list it shows.
C26_EmptyQueryMatchesNothing ==
    [][Plain(apply_filter(St, <<>>)) =>
           /\ find_matches(St, <<>>) = <<>>
           /\ shown' = "No Matches"
           /\ UNCHANGED <<filter_mode, custom_query_paths, filtered_image_paths,
                          last_query_conditions, current_index,
                          current_file_path>>]_vars

\* The dialog "No Matches" is up in a workspace where every query with
\* conditions has a match: the query without conditions was applied, here
\* while a Custom Query is active.
C26_Witness ==
    /\ shown = "No Matches"
    /\ filter_mode = ModeQuery
    /\ \A conds \in Queries \ {<<>>} : find_matches(St, conds) # <<>>

\* ------------------------------------------------------------------ the overlap measure, checked

\* The thresholds of the calls of _boxes_overlap (0.3, 0.5, 0.8), zero, and
\* the largest below one that has seven decimals.
Thresholds == {0, overlap_threshold, 5 * Tenth, 8 * Tenth, ONE - 1}

\* The boxes _image_has_overlaps reads from the label file of image p.
BoxesOf(p) == Range(OverlapBoxes(label_files[p]))

\* Once the filter "Overlapping" has read the label files: for the boxes a, b
\* of a label file the program computes the same IoU for (a, b) and (b, a),
\* an IoU that is not negative, and for a box with area an IoU with itself
\* above every threshold below one that the program uses.
OverlapSymmetric ==
    filter_mode.kind = "Overlapping" =>
    \A p \in Images : \A a \in BoxesOf(p) : \A b \in BoxesOf(p) :
        LET ab == IoU(a, b)
            aa == IoU(a, a)
        IN  /\ ab = IoU(b, a)
            /\ FCmp(ab.iou, Zero) >= 0
            /\ (a.w > 0 /\ a.h > 0) =>
                   /\ ~aa.none
                   /\ \A t \in Thresholds : Above(aa, t)

\* C27: the overlap measure is symmetric and reflexive.  Once the filter
\* "Overlapping" has read the label files: for the boxes a, b of a label file
\* and every threshold t, BoxesOverlap(a, b, t) equals BoxesOverlap(b, a, t);
\* the IoU the program computes lies in [0, 1]; and for a box with positive
\* area IoU(a, a) is 1, so that BoxesOverlap(a, a, t) holds for every t < 1.
C27_OverlapSymmetricReflexive ==
    filter_mode.kind = "Overlapping" =>
    \A p \in Images : \A a \in BoxesOf(p) : \A b \in BoxesOf(p) :
        LET ab == IoU(a, b)
            ba == IoU(b, a)
            aa == IoU(a, a)
        IN  /\ \A t \in Thresholds : Above(ab, t) = Above(ba, t)
            /\ FCmp(ab.iou, Zero) >= 0
            /\ FCmp(ab.iou, FromInt(1)) <= 0
            /\ (a.w > 0 /\ a.h > 0) =>
                   /\ aa = [none |-> FALSE, iou |-> FromInt(1)]
                   /\ \A t \in Thresholds : t < ONE => Above(aa, t)

\* ------------------------------------------------------------------ reducing a dataset, checked

\* reduce_dataset was called with a target k, 0 < k < n, for n images.
Reduced ==
    /\ 0 < reduction.target_count
    /\ reduction.target_count < Len(reduction.all_images)

\* C28: for 0 < k < n the kept and the excluded files are disjoint, together
\* they are the sorted list, and exactly k files are kept: the k selected
\* indices are in 0..n-1 and pairwise distinct, for both methods and every
\* outcome of the random generator.
C28_ReducePartitions ==
    Reduced =>
        LET k == reduction.target_count
            n == Len(reduction.all_images)
            idx == reduction.indices_list
            kept == Range(reduction.kept_files)
            excluded == Range(reduction.excluded_files)
        IN  /\ kept \cap excluded = {}
            /\ kept \cup excluded = Range(reduction.all_images)
            /\ Cardinality(kept) = k
            /\ Len(reduction.kept_files) = k
            /\ Len(reduction.excluded_files) = n - k
            /\ Len(idx) = k
            /\ \A i \in 1..k : 0 <= idx[i] /\ idx[i] < n
            /\ \A i, j \in 1..k : i # j => idx[i] # idx[j]

\* Three of five images are kept by the uniform method: the first, the third
\* and the fifth.
C28_Witness ==
    /\ Reduced
    /\ reduction.method = "uniform"
    /\ reduction.indices_list = <<0, 2, 4>>
    /\ Len(reduction.all_images) = 5
    /\ Len(reduction.kept_files) = 3

\* C29: the stratified method cuts 0..n-1 into k segments that follow one
\* another, the first n mod k of n div k + 1 indices and the others of
\* n div k, none empty, and keeps exactly one index of every segment.
C29_StratifiedSegments ==
    (Reduced /\ reduction.method = "stratified") =>
        LET k == reduction.target_count
            n == Len(reduction.all_images)
            seg == reduction.segments
            kept_indices == Range(reduction.indices_list)
        IN  /\ Len(seg) = k
            /\ seg[1].start = 0
            /\ \A i \in 1..(k - 1) : seg[i + 1].start = seg[i].start + seg[i].seg_size
            /\ seg[k].start + seg[k].seg_size = n
            /\ \A i \in 1..k :
                   /\ seg[i].seg_size = (n \div k) + (IF i <= n % k THEN 1 ELSE 0)
                   /\ seg[i].seg_size >= 1
                   /\ Cardinality({x \in kept_indices :
                                      /\ seg[i].start <= x
                                      /\ x < seg[i].start + seg[i].seg_size}) = 1
            /\ Range(reduction.kept_files)
                   = {reduction.all_images[x + 1] : x \in kept_indices}

\* Five images in three segments of two, two and one index; the last index
\* of each segment is kept.
C29_Witness ==
    /\ Reduced
    /\ reduction.method = "stratified"
    /\ Len(reduction.all_images) = 5
    /\ reduction.indices_list = <<1, 3, 4>>

\* C30: reduce_dataset removes the excluded files and nothing else.  Every
\* kept image is still in images/ and its label file, if it had one, still in
\* labels/; every excluded image and its label file are in skipped_images/
\* (move) or gone (delete).  Images that share a stem are no exception.
C30_ReduceRemovesExcludedOnly ==
    [][(ReduceDataset /\ Reduced') =>
           LET kept == Range(reduction'.kept_files)
               excluded == Range(reduction'.excluded_files)
           IN  /\ dataset'.images = kept
               /\ \A f \in kept :
                      Stem(f) \in dataset.labels => Stem(f) \in dataset'.labels
               /\ \A f \in excluded :
                      /\ f \notin dataset'.images
                      /\ IF reduction'.action = "move"
                         THEN /\ f \in dataset'.skipped_images
                              /\ Stem(f) \in dataset.labels =>
                                     Stem(f) \in dataset'.skipped_labels
                         ELSE /\ f \notin dataset'.skipped_images \ dataset.skipped_images
                              /\ Stem(f) \in dataset.labels =>
                                     \/ Stem(f) \notin dataset'.labels
                                     \/ \E g \in kept : Stem(g) = Stem(f)]_vars

\* ------------------------------------------------------------------ persistent ids, checked

\* image_id_map.get(p, 0): the id the file list and "Go to image" show for p.
ListId(p) == IF p \in DOMAIN image_id_map THEN image_id_map[p] ELSE 0

\* image_id_map.get(path, index + 1): the id load_image shows for the open image.
OpenId ==
    IF current_file_path \in DOMAIN image_id_map THEN image_id_map[current_file_path]
    ELSE current_index + 1

\* The ids are the 1-based ranks of the paths that were scanned at the load.
IdsAreRanks ==
    /\ {image_id_map[p] : p \in DOMAIN image_id_map} = 1..Cardinality(DOMAIN image_id_map)
    /\ \A p, q \in DOMAIN image_id_map : p < q <=> image_id_map[p] < image_id_map[q]

\* Between two loads no handler touches the id map: an image that has an id
\* keeps it through filters, deletions, undos and redos.
IdsKeptBetweenLoads == [][RefreshWorkspace \/ image_id_map' = image_id_map]_vars

\* C31: the ids are the 1-based ranks of the sorted image paths at the load, a
\* bijection onto 1..n, and since that load (filters, deletions and deletion
\* undos, no reload) every image of the dataset has the id of the load and no
\* two images of the dataset are shown with one id.
C31_IdsPersistentUnique ==
    /\ IdsAreRanks
    /\ \A p \in Range(image_paths) :
           \A q \in Range(image_paths) \ {p} : ListId(p) # ListId(q)
    /\ (current_image /\ Contains(image_paths, current_file_path)) =>
           \A q \in Range(image_paths) \ {current_file_path} : OpenId # ListId(q)

\* ------------------------------------------------------------------ the size of the stacks, checked

\* C32: the annotation-undo stack never holds more than max_undo_size entries,
\* although Redo appends to it without a test: the undo and the redo stack
\* together never hold more than max_undo_size entries.
C32_StacksBounded ==
    /\ Len(annotation_undo_stack) <= max_undo_size
    /\ Len(annotation_undo_stack) + Len(annotation_redo_stack) <= max_undo_size

\* The undo stack was full, two entries were undone and one of them redone:
\* Redo has appended to an undo stack of max_undo_size - 2 entries.
C32_Witness ==
    /\ before_undo.phase = "redone"
    /\ Len(annotation_undo_stack) = max_undo_size - 1
    /\ Len(annotation_redo_stack) = 1

\* ------------------------------------------------------------------ the popped entry, checked

\* Ctrl+Z has applied entry e: its image is open with the annotations of the
\* entry, and the label file of the image is what save_annotations writes for
\* them.
Applied(e) ==
    /\ current_file_path' = e.path
    /\ annotations' = e.anns
    /\ label_files'[e.path] = WriteLines(e.anns)

\* An entry that Ctrl+Z finds on the open image, or on an image of the file
\* list while another path is current, is applied.
ListedEntryApplied ==
    [][(/\ Undo
        /\ UndoApplies
        /\ Last(annotation_undo_stack).path = current_file_path => current_image)
           => Applied(Last(annotation_undo_stack))]_vars

\* C33: the entry Ctrl+Z pops from the annotation-undo stack is applied, also
\* when its image is hidden by the filter or has been deleted: afterwards the
\* image of the entry is open and its annotations, in memory and in the label
\* file, are those of the entry.
C33_PoppedEntryApplied ==
    [][(Undo /\ annotation_undo_stack # <<>>) =>
           Applied(Last(annotation_undo_stack))]_vars

\* ------------------------------------------------------------------ the target of a save, checked

\* save_annotations has written a list to the label file of the image it
\* belongs to: the list that was in memory for the image that was open, the
\* list that is in memory now for the image that is open now, or the list
\* load_image read from the file of p when it opened p on the way.
SavedHome(p) ==
    \/ current_image /\ p = current_file_path
           /\ label_files'[p] = WriteLines(annotations)
    \/ current_image' /\ p = current_file_path'
           /\ label_files'[p] = WriteLines(annotations')
    \/ label_files'[p] = WriteLines(Sanitize(ParseLabel(label_files[p])))

\* The label file of p was written by something else than save_annotations:
\* the image was deleted, its annotations were cleared in the file list, a
\* deletion was undone, or the worker thread of a batch job wrote it.
NotSaved(p) ==
    \/ (DeleteCurrent \/ DeleteSelected) /\ label_files'[p] = NoFile
    \/ ClearSelected /\ label_files'[p] = File(<<>>)
    \/ /\ Undo
       /\ deleted_files_stack # <<>>
       /\ Last(deleted_files_stack).img_path = p
       /\ label_files'[p] = Last(deleted_files_stack).lbl_data
    \/ WorkerWrite

\* The list that is in memory once another image is open is the list of that
\* image: read from its label file (as it was, as "Clear annotations" of the
\* file list left it, or as a deletion undo restored it), or the snapshot of
\* an Undo or Redo entry of that image.
ListOfOpenImage ==
    LET p == current_file_path'
    IN  \/ annotations' = Sanitize(ParseLabel(label_files[p]))
        \/ ClearSelected /\ label_files'[p] = File(<<>>) /\ annotations' = <<>>
        \/ /\ Undo
           /\ deleted_files_stack # <<>>
           /\ Last(deleted_files_stack).img_path = p
           /\ annotations' = Sanitize(ParseLabel(Last(deleted_files_stack).lbl_data))
        \/ /\ Undo
           /\ annotation_undo_stack # <<>>
           /\ Last(annotation_undo_stack) = Entry(p, annotations')
        \/ /\ Redo
           /\ annotation_redo_stack # <<>>
           /\ Last(annotation_redo_stack) = Entry(p, annotations')

QueryShowsStored ==
    (filter_mode = ModeQuery /\ custom_query_paths # {}) =>
        Range(filtered_image_paths) \subseteq custom_query_paths

\* C35: while the Custom Query filter is active the file list shows no image
\* outside the stored match set custom_query_paths, also after deletions have
\* removed every matched image from the set.
C35_QueryShowsMatchesOnly ==
    filter_mode = ModeQuery =>
        Range(filtered_image_paths) \subseteq custom_query_paths

\* ------------------------------------------------------------------ the worker's lines, checked

\* A line that load_image reads and save_annotations writes back as it is: an
\* image that was opened before the job has all such lines of its label file
\* in memory, so one that is in the file and not in memory is the worker's.
Stable(l) ==
    /\ l.kind = "full"
    /\ SaveLine(ClampOnLoad(Ann(l.cid, l.cx, l.cy, l.w, l.h))) = l

\* A handler of the main thread that navigates and saves, or the finalising
\* poll_progress.
UiStep == NextImage \/ FilterChanged \/ PollProgress

\* C36: what the worker of a batch job has written into a label file is not
\* lost to a write of the main thread: while the job is not finalised, no
\* navigation, no save and not the finalisation itself takes a line out of a
\* label file.
C36_WorkerLinesKept ==
    [][(job.dialog /\ UiStep) =>
           \A p \in Images : \A i \in 1..Len(label_files[p].lines) :
               Stable(label_files[p].lines[i]) =>
                   Contains(label_files'[p].lines, label_files[p].lines[i])]_vars

\* ------------------------------------------------------------------ the end of a job, checked

\* The fairness condition on PollFinalises is one on PollProgress.
PollFinalisesIsPollProgress == [][PollFinalises <=> PollProgress]_vars

\* C37: a worker that was started leaves its loop and sets done, and the poll
\* loop of the main thread finalises the job; a worker that finds the cancel
\* flag set at the top of its loop ends there and starts no other image, so
\* after a cancel it finishes the image it is writing at most.
C37_JobEnds ==
    /\ (job.thread # "none") ~> (job.thread = "none")
    /\ job.dialog ~> ~job.dialog
    /\ [][(job.cancelled /\ WorkerLoop) =>
              /\ job'.thread = "none"
              /\ job'.predicted = job.predicted \/ job' = NoJob]_vars

\* The one job of the run was started, has ended and is finalised, and it has
\* written a label file.
C37_Witness ==
    /\ jobs_left = MaxJobs - 1
    /\ job = NoJob
    /\ \E p \in Images : p \in image_files /\ Len(label_files[p].lines) > MaxAnns

\* ------------------------------------------------------------------ delete and undo, checked

\* The Delete key and then Ctrl+Z.
DeleteThenUndo == undo_action(delete_current_image_quick(St))

\* The Delete key removes an image: one is open, at a row of the file list.
DeletesImage ==
    /\ current_image
    /\ 0 <= current_index /\ current_index < Len(filtered_image_paths)

\* What does come back: the image file, the annotations load_image shows for
\* the image, the sorted image list, the class set of the image in the index,
\* the ids and the deletion stack.
DeleteUndoRestoresShown ==
    (annotation_undo_stack = <<>> /\ DeletesImage) =>
        LET s == DeleteThenUndo
            p == filtered_image_paths[current_index + 1]
        IN  /\ s.image_files = image_files
            /\ Stored(s.label_files, p) = Stored(label_files, p)
            /\ s.image_paths = image_paths
            /\ CacheGet(s.image_to_classes_cache, p)
                   = CacheGet(image_to_classes_cache, p)
            /\ s.image_id_map = image_id_map
            /\ s.deleted_files_stack = deleted_files_stack

\* C38: with no annotation undo pending, the Delete key followed by Ctrl+Z
\* brings the image back: its file, the lines of its label file, its place in
\* the sorted image list, its class set in the index and its id are the ones
\* from before the deletion, and the deletion stack is as it was.  (A label
\* file without a line comes back as no label file: `if lbl_data:`.)
C38_DeleteUndoRoundTrip ==
    (annotation_undo_stack = <<>> /\ DeletesImage) =>
        LET s == DeleteThenUndo
            p == filtered_image_paths[current_index + 1]
        IN  /\ s.image_files = image_files
            /\ s.label_files[p].lines = label_files[p].lines
            /\ s.image_paths = image_paths
            /\ CacheGet(s.image_to_classes_cache, p)
                   = CacheGet(image_to_classes_cache, p)
            /\ s.image_id_map = image_id_map
            /\ s.deleted_files_stack = deleted_files_stack

====
